---- MODULE Spec2Model ----
(***************************************************************************)
(* Model of the LLM-orchestrated data-transformation loops:                *)
(*   - the tool-dispatch loop  CompositeAnalysisAgent.analyze              *)
(*       variant "pkg"  : src/composite_agent/composite_agent.py           *)
(*       variant "root" : src/composite_agent.py                           *)
(*   - the code-generation retry loop  CSVAnalysisAgentAPI.analyze         *)
(*       src/Julius_v2-main/csv_agent_api.py                               *)
(* Text is a sequence of runs <<token, n>> (n characters of kind token),   *)
(* so that lengths around the 3000-character cap are exact without         *)
(* enumerating 3000-element sequences.                                     *)
(***************************************************************************)
EXTENDS Integers, Sequences, FiniteSets, TLC

VARIABLES
    variant,          \* which CompositeAnalysisAgent source is running
    pc,               \* position of analyze: idle / loop / returned / raised
    db_messages,      \* rows of table messages of the request's session, by id
    messages,         \* the message list passed to messages.create
    iteration,        \* loop variable of `for iteration in range(max_iterations)`
    all_plots,        \* analyze local all_plots
    tool_calls_log,   \* analyze local tool_calls_log
    envelope,         \* the dict analyze returned (NoEnvelope before that)
    engine_calls,     \* history: messages.create calls of the current request
    stops,            \* history: stop reasons received in the current request
    last_response,    \* history: the last engine response of the current request
    last_outs,        \* history: what the tools of that response did, per block
    requested_calls,  \* history: tool_use blocks the engine asked for, in order
    sandbox_plots,    \* history: plots carried by the sandbox results, in order
    db_before,        \* history: db_messages right after the request's user save
    varied,           \* history: non-default tool_use responses consumed
    \* CSVAnalysisAgentAPI
    current_df,       \* self.current_df (NoneVal until a file is loaded)
    csv_pc,           \* position of load/analyze: idle / generate / execute / returned / raised
    result,           \* the dict analyze builds and returns
    attempt,          \* loop variable of `for attempt in range(self.max_retries)`
    previous_error,   \* analyze local previous_error
    code,             \* analyze local code
    gen_calls,        \* history: generate_code_with_retry calls of the current request
    exec_calls,       \* history: execute_python_code calls of the current request
    feedback,         \* history: the error text in the prompt of each generation call
    exec_errors,      \* history: error text of each failed execution
    gen_codes,        \* history: code returned by each generation call
    df_before,        \* history: current_df when the current request started
    csv_query,       \* history: the instruction of the current request
    gen_cause,        \* history: cause of the failed generation call, if any
    csv_requests,     \* history: analyze calls started
    \* ClickHouseClient
    sql_pc,           \* position of execute_query: idle / returned
    sql_in,           \* history: the statement of the last call
    sql_outcome,      \* history: what the engine and the writer did in the last call
    sql_sent,         \* history: every text passed to self.client.query
    sql_files,        \* snapshot files written under TEMP_DIR
    sql_result,       \* the JSON execute_query returned
    sql_requests,     \* history: execute_query calls made
    sql_now,          \* int(time.time()): the clock in whole seconds
    sql_written,      \* history: the snapshot paths written, in order
    \* ChatStorage over SQLite
    st_variant,       \* which chat_storage.py runs: "pkg" or "root"
    st_now,           \* the clock, in ticks
    st_sessions,      \* sessions table: last_activity per session_id, NoRow if absent
    st_messages,      \* messages table, rows in id order
    st_next_id,       \* AUTOINCREMENT counter of messages.id
    st_pc,            \* position of the save in progress: idle / insert / trim
    st_sid,           \* session_id of the save in progress
    st_role,          \* role of the save in progress
    st_saved,         \* history: ids inserted per session since it was last swept
    st_view,          \* what the last get_history returned
    st_op,            \* history: the last operation that took effect
    st_sess_before,   \* history: sessions table before the last sweep
    st_msgs_before,   \* history: messages table before the last sweep
    st_saves,         \* history: saves started
    \* PythonSandbox / execute_python_code
    sb_variant,       \* which sandbox runs: "pkg", "root" or "csv"
    sb_figs,          \* pyplot's registry of open figures (process-wide)
    sb_call,          \* per worker thread: the call in progress
    sb_op,            \* history: the last step taken, with what a return handed back
    sb_calls,         \* history: calls started
    \* single calls of the functions that keep no state
    fn_call,          \* the function called last and its arguments
    fn_ret,           \* what that call returned
    \* POST /api/analyze
    api_variant,      \* which api_server.py serves: "pkg" or "root"
    api_pc,           \* the request: idle / awaiting / responded
    api_elapsed,      \* seconds since the handler started awaiting
    api_worker,       \* the thread of asyncio.to_thread: none / running / done
    api_response,     \* what the client received (NoneVal before that)
    api_store,        \* roles of the messages the request saved in chat storage
    sw_variant,       \* which api_server source is running
    sw_server,        \* the FastAPI application: up / down
    sw_task,          \* the task of cleanup_loop: sleeping / cancelled
    sw_slept,         \* ticks spent in `await asyncio.sleep(1800)`
    sw_age,           \* age in ticks of each snapshot file of TEMP_DIR, or NoFile
    sw_op             \* the last step of the sweep, its deletions and failures

agentVars == <<variant, pc, db_messages, messages, iteration, all_plots,
               tool_calls_log, envelope, engine_calls, stops, last_response,
               last_outs, requested_calls, sandbox_plots, db_before, varied>>

csvVars == <<current_df, csv_pc, result, attempt, previous_error, code,
             gen_calls, exec_calls, feedback, exec_errors, gen_codes,
             df_before, csv_query, gen_cause, csv_requests>>

sqlVars == <<sql_now, sql_written, sql_pc, sql_in, sql_outcome, sql_sent, sql_files, sql_result,
             sql_requests>>

storeVars == <<st_variant, st_now, st_sessions, st_messages, st_next_id, st_pc,
               st_sid, st_role, st_saved, st_view, st_op, st_sess_before,
               st_msgs_before, st_saves>>

sbVars == <<sb_variant, sb_figs, sb_call, sb_op, sb_calls>>

fnVars == <<fn_call, fn_ret>>

apiVars == <<api_variant, api_pc, api_elapsed, api_worker, api_response,
             api_store>>

sweepVars == <<sw_variant, sw_server, sw_task, sw_slept, sw_age, sw_op>>

vars == <<agentVars, csvVars, sqlVars, storeVars, sbVars, fnVars, apiVars, sweepVars>>

-----------------------------------------------------------------------------
(* Bounds of the model *)
MaxVaried == 1
MaxCsvRequests == 2
MaxRows == 2
MaxCols == 2
MaxSqlRequests == 1
MaxStoreSaves == 2
MaxStoreTicks == 2
TicksPerDay == 2
MaxFigs == 2
MaxSandboxCalls == 2
MaxSnapshotCalls == 2
MaxSqlTicks == 1
MaxOverrun == 2
MaxLines == 3

(* Program constants *)
max_iterations_eleven == 10 + 1
max_iterations == 10
max_messages == 20
TruncateLimit == 3000
max_retries == 3
AGENT_TIMEOUT == 240
SampleLines == 5

-----------------------------------------------------------------------------
(* Text as runs *)

NL == << <<"\n", 1>> >>

RECURSIVE StrLen(_)
StrLen(s) == IF s = <<>> THEN 0 ELSE s[1][2] + StrLen(Tail(s))

\* s + t
Concat(s, t) ==
    IF s = <<>> THEN t
    ELSE IF t = <<>> THEN s
    ELSE IF s[Len(s)][1] = t[1][1]
         THEN SubSeq(s, 1, Len(s) - 1)
                \o << <<t[1][1], s[Len(s)][2] + t[1][2]>> >> \o Tail(t)
         ELSE s \o t

\* s[:k]
RECURSIVE Prefix(_, _)
Prefix(s, k) ==
    IF k <= 0 \/ s = <<>> THEN <<>>
    ELSE IF s[1][2] <= k THEN Concat(<<s[1]>>, Prefix(Tail(s), k - s[1][2]))
    ELSE << <<s[1][1], k>> >>

\* "\n".join(parts)
RECURSIVE JoinLines(_)
JoinLines(parts) ==
    IF parts = <<>> THEN <<>>
    ELSE IF Len(parts) = 1 THEN parts[1]
    ELSE Concat(Concat(parts[1], NL), JoinLines(Tail(parts)))

Surrogate == "\\ud800"

\* s.encode('utf-8', errors='ignore').decode('utf-8', errors='ignore'):
\* lone surrogates cannot be encoded and are dropped
RECURSIVE Sanitize(_)
Sanitize(s) ==
    IF s = <<>> THEN <<>>
    ELSE IF s[1][1] = Surrogate THEN Sanitize(Tail(s))
    ELSE Concat(<<s[1]>>, Sanitize(Tail(s)))

-----------------------------------------------------------------------------
(* Conversation store, one session (chat_storage.py of either variant) *)

UserMsg(text) == [role |-> "user", content |-> text]
AssistantMsg(text) == [role |-> "assistant", content |-> text]

\* "\n\n[...obrezano...]": two newlines and the 16-character bracketed word
TruncMarker == << <<"\n", 2>>, <<"[...obrezano...]", 16>> >>

\* if len(text) > 3000: text = text[:3000] + marker
Truncate(text) ==
    IF StrLen(text) > TruncateLimit
    THEN Concat(Prefix(text, TruncateLimit), TruncMarker)
    ELSE text

\* DELETE ... WHERE id NOT IN (SELECT id ... ORDER BY created_at DESC LIMIT N)
TrimSession(rows) ==
    IF Len(rows) > max_messages
    THEN SubSeq(rows, Len(rows) - max_messages + 1, Len(rows))
    ELSE rows

\* the user turn inserted twice
SaveUserMessageTwice(rows, text) ==
    TrimSession(Append(Append(rows, UserMsg(text)), UserMsg(text)))

\* save_user_message
SaveUserMessage(rows, text) == TrimSession(Append(rows, UserMsg(text)))

SaveAssistantMessageUncut(rows, text) ==
    TrimSession(Append(rows, AssistantMsg(text)))

SaveAssistantMessage(rows, text) ==
    TrimSession(Append(rows, AssistantMsg(Truncate(text))))

\* SELECT role, content ... ORDER BY created_at ASC
GetHistory(rows) == [i \in 1..Len(rows) |-> [role |-> rows[i].role, content |-> rows[i].content]]

-----------------------------------------------------------------------------
(* Engine responses and tool outcomes *)

EmptyDict == <<>>
NoneVal == [none |-> TRUE]

TextBlock(t) == [type |-> "text", text |-> t]
ToolUseBlock(id, name, input) ==
    [type |-> "tool_use", id |-> id, name |-> name, input |-> input]

TextA == << <<"a", 5>> >>
TextB == << <<"b", 2999>> >>
TextLong == << <<"c", 3001>> >>

PyInput == [code |-> "code1", parquet_path |-> "q1.parquet"]
PyInputNoPath == [code |-> "code1"]
SqlInput == [sql |-> "SELECT 1"]

Returns(v) == [raises |-> FALSE, value |-> v]
Raises(e) == [raises |-> TRUE, exc |-> e]

SandboxResult(ok, plots) ==
    [success |-> ok, output |-> "out", result |-> NoneVal, plots |-> plots,
     error |-> IF ok THEN NoneVal ELSE [none |-> FALSE, text |-> "ValueError"]]

SandboxResults ==
    { SandboxResult(TRUE, <<>>),
      SandboxResult(TRUE, <<"png1">>),
      SandboxResult(TRUE, <<"png2", "png3", "png4">>) }

\* what the component behind a tool can do when _execute_tool calls it
ToolOutcomes(name, input) ==
    CASE name = "list_tables" ->
            { Returns([tables |-> "schema"]), Raises("ConnectionError") }
      [] name = "clickhouse_query" ->
            IF "sql" \notin DOMAIN input THEN { Raises("KeyError") }
            ELSE { Returns([success |-> TRUE, parquet_path |-> "q1.parquet"]),
                   Returns([success |-> FALSE, error |-> "db error", sql |-> input.sql]) }
      [] name = "python_analysis" ->
            IF {"code", "parquet_path"} \subseteq DOMAIN input
            THEN { Returns(r) : r \in SandboxResults }
            ELSE { Raises("KeyError") }
      [] OTHER -> { Returns([error |-> <<"Unknown tool: ", name>>]) }

\* a failure of the tool turned into an empty object
ExecuteToolSilent(name, input, outcome) ==
    IF outcome.raises THEN EmptyDict ELSE outcome.value

\* CompositeAnalysisAgent._execute_tool: the JSON text returned for a tool,
\* written as the object it serialises
ExecuteTool(name, input, outcome) ==
    IF outcome.raises
    THEN [error |-> outcome.exc, traceback |-> "Traceback"]
    ELSE outcome.value

\* the python_analysis branch of analyze: plots are taken out of the tool
\* result and replaced by their count
PlotsOf(name, tool_result) ==
    IF name = "python_analysis" /\ "plots" \in DOMAIN tool_result
       /\ tool_result.plots # <<>>
    THEN tool_result.plots
    ELSE <<>>

ResultForClaude(name, tool_result) ==
    IF PlotsOf(name, tool_result) # <<>>
    THEN [k \in (DOMAIN tool_result \ {"plots"}) \cup {"plots_count"} |->
            IF k = "plots_count" THEN Len(tool_result.plots) ELSE tool_result[k]]
    ELSE tool_result

\* assistant_content of analyze
RECURSIVE AssistantContent(_)
AssistantContent(content) ==
    IF content = <<>> THEN <<>>
    ELSE LET block == Head(content) IN
         IF block.type \in {"text", "tool_use"}
         THEN <<block>> \o AssistantContent(Tail(content))
         ELSE AssistantContent(Tail(content))

\* the same loop with each result put in front of the earlier ones
RECURSIVE DispatchBlocksPrepending(_, _, _, _)
DispatchBlocksPrepending(content, outs, iter, acc) ==
    IF content = <<>> THEN acc
    ELSE LET block == Head(content) IN
         IF block.type # "tool_use"
         THEN DispatchBlocksPrepending(Tail(content), Tail(outs), iter, acc)
         ELSE LET tool_result == ExecuteTool(block.name, block.input, Head(outs))
              IN DispatchBlocksPrepending(Tail(content), Tail(outs), iter,
                    [plots |-> acc.plots \o PlotsOf(block.name, tool_result),
                     log |-> Append(acc.log, [tool |-> block.name,
                                               input |-> block.input,
                                               iteration |-> iter]),
                     results |-> <<[type |-> "tool_result",
                                    tool_use_id |-> block.id,
                                    content |-> ResultForClaude(block.name, tool_result)]>>
                                 \o acc.results])

\* the `for block in response.content` loop that runs the tools;
\* acc carries all_plots, tool_calls_log and tool_results_content
RECURSIVE DispatchBlocks(_, _, _, _)
DispatchBlocks(content, outs, iter, acc) ==
    IF content = <<>> THEN acc
    ELSE LET block == Head(content) IN
         IF block.type # "tool_use"
         THEN DispatchBlocks(Tail(content), Tail(outs), iter, acc)
         ELSE LET tool_result == ExecuteTool(block.name, block.input, Head(outs))
              IN DispatchBlocks(Tail(content), Tail(outs), iter,
                    [plots |-> acc.plots \o PlotsOf(block.name, tool_result),
                     log |-> Append(acc.log, [tool |-> block.name,
                                               input |-> block.input,
                                               iteration |-> iter]),
                     results |-> Append(acc.results,
                                    [type |-> "tool_result",
                                     tool_use_id |-> block.id,
                                     content |-> ResultForClaude(block.name, tool_result)])])

\* text_parts of analyze
RECURSIVE TextParts(_)
TextParts(content) ==
    IF content = <<>> THEN <<>>
    ELSE IF Head(content).type = "text"
         THEN <<Head(content).text>> \o TextParts(Tail(content))
         ELSE TextParts(Tail(content))

-----------------------------------------------------------------------------
(* What the reasoning engine and the callers may send *)

Query1 == << <<"q", 4>> >>
Query2 == << <<"q", 2>>, <<Surrogate, 1>>, <<"q", 2>> >>
Queries == {Query1, Query2}

EndTurnContents ==
    { <<>>,
      <<TextBlock(TextA)>>,
      <<TextBlock(TextA), TextBlock(TextB)>>,
      <<TextBlock(TextLong)>> }

\* the tool_use response that stays available on every iteration, with the
\* one outcome its tool has there
DefaultToolUse == <<ToolUseBlock("tu0", "python_analysis", PyInput)>>
DefaultOutcomes == <<Returns(SandboxResult(TRUE, <<"png0">>))>>

VariedToolUses ==
    { <<TextBlock(TextA), ToolUseBlock("tu1", "python_analysis", PyInput)>>,
      <<ToolUseBlock("tu1", "python_analysis", PyInput),
        ToolUseBlock("tu2", "python_analysis", PyInput)>>,
      <<ToolUseBlock("tu1", "clickhouse_query", SqlInput), TextBlock(TextA)>>,
      <<ToolUseBlock("tu1", "python_analysis", PyInputNoPath)>>,
      <<ToolUseBlock("tu1", "list_tables", EmptyDict)>>,
      <<ToolUseBlock("tu1", "make_coffee", EmptyDict)>> }

OtherStopReasons == {"max_tokens"}
EngineFailures == {"AuthenticationError", "RateLimitError"}

\* outcomes of the tools behind the blocks of one response, block by block
NoOutcome == Returns(EmptyDict)
OutcomesOf(block) ==
    IF block.type = "tool_use" THEN ToolOutcomes(block.name, block.input)
    ELSE {NoOutcome}
OutcomeSeqs(content) ==
    CASE Len(content) = 1 ->
            { <<a>> : a \in OutcomesOf(content[1]) }
      [] Len(content) = 2 ->
            { <<a, b>> : a \in OutcomesOf(content[1]), b \in OutcomesOf(content[2]) }

\* histories a session can hold when a request arrives
FullWindow ==
    [i \in 1..max_messages |->
        IF i % 2 = 1 THEN UserMsg(Query1) ELSE AssistantMsg(TextA)]
InitialHistories ==
    { <<>>, <<UserMsg(Query1)>>, <<UserMsg(Query1), AssistantMsg(TextA)>>, FullWindow }

-----------------------------------------------------------------------------
(* CompositeAnalysisAgent.analyze *)

NoEnvelope == [returned |-> FALSE]
NoResponse == [stop_reason |-> "none", content |-> <<>>]

ErrorText(parts) == [none |-> FALSE, text |-> parts]

\* an envelope that never says what went wrong
EnvelopeNoError(success, text, plots, calls, error) ==
    [success |-> success, session_id |-> "s1", text_output |-> text,
     plots |-> plots, tool_calls |-> calls, error |-> NoneVal]

\* the dict returned by analyze
Envelope(success, text, plots, calls, error) ==
    [success |-> success, session_id |-> "s1", text_output |-> text,
     plots |-> plots, tool_calls |-> calls, error |-> error]

\* history helpers: what the engine asked for and what the sandbox produced
RECURSIVE RequestedOf(_, _)
RequestedOf(content, iter) ==
    IF content = <<>> THEN <<>>
    ELSE IF Head(content).type = "tool_use"
         THEN <<[tool |-> Head(content).name, input |-> Head(content).input,
                 iteration |-> iter]>> \o RequestedOf(Tail(content), iter)
         ELSE RequestedOf(Tail(content), iter)

RECURSIVE ProducedPlots(_, _)
ProducedPlots(content, outs) ==
    IF content = <<>> THEN <<>>
    ELSE (IF Head(content).type = "tool_use"
             /\ Head(content).name = "python_analysis"
             /\ ~Head(outs).raises
          THEN Head(outs).value.plots ELSE <<>>)
         \o ProducedPlots(Tail(content), Tail(outs))

AgentInit ==
    /\ variant \in {"pkg", "root"}
    /\ pc = "idle"
    /\ db_messages \in InitialHistories
    /\ messages = <<>>
    /\ iteration = 0
    /\ all_plots = <<>>
    /\ tool_calls_log = <<>>
    /\ envelope = NoEnvelope
    /\ engine_calls = 0
    /\ stops = <<>>
    /\ last_response = NoResponse
    /\ last_outs = <<>>
    /\ requested_calls = <<>>
    /\ sandbox_plots = <<>>
    /\ db_before = <<>>
    /\ varied = 0

\* analyze up to the loop: sanitize, save the user turn, read the history
AnalyzeStart(q) ==
    /\ pc = "idle"
    /\ LET user_query == Sanitize(q)
           rows == SaveUserMessage(db_messages, user_query)
       IN /\ db_messages' = rows
          /\ db_before' = rows
          /\ messages' = GetHistory(rows)
    /\ pc' = "loop"
    /\ iteration' = 0
    /\ all_plots' = <<>>
    /\ tool_calls_log' = <<>>
    /\ UNCHANGED <<variant, envelope, engine_calls, stops, last_response,
                   last_outs, requested_calls, sandbox_plots, varied>>

CanCallEngine == pc = "loop" /\ iteration < max_iterations

\* messages.create raises
EngineRaises(cause) ==
    /\ CanCallEngine
    /\ engine_calls' = engine_calls + 1
    /\ stops' = Append(stops, "raise")
    /\ IF variant = "root"
       THEN /\ pc' = "returned"
            /\ envelope' = Envelope(FALSE, <<>>, <<>>, tool_calls_log,
                                    ErrorText(<<"Claude API error: ", cause>>))
       ELSE /\ pc' = "raised"
            /\ UNCHANGED envelope
    /\ UNCHANGED <<variant, db_messages, messages, iteration, all_plots,
                   tool_calls_log, last_response, last_outs, requested_calls,
                   sandbox_plots, db_before, varied>>

\* stop_reason == "end_turn"
EngineEndTurn(content) ==
    /\ CanCallEngine
    /\ engine_calls' = engine_calls + 1
    /\ stops' = Append(stops, "end_turn")
    /\ last_response' = [stop_reason |-> "end_turn", content |-> content]
    /\ last_outs' = <<>>
    /\ LET final_text == JoinLines(TextParts(content))
       IN /\ db_messages' = SaveAssistantMessage(db_messages, final_text)
          /\ envelope' = Envelope(TRUE, final_text, all_plots, tool_calls_log, NoneVal)
    /\ pc' = "returned"
    /\ UNCHANGED <<variant, messages, iteration, all_plots, tool_calls_log,
                   requested_calls, sandbox_plots, db_before, varied>>

\* stop_reason == "tool_use": one whole iteration of the loop
EngineToolUse(content, outs) ==
    /\ CanCallEngine
    /\ engine_calls' = engine_calls + 1
    /\ stops' = Append(stops, "tool_use")
    /\ last_response' = [stop_reason |-> "tool_use", content |-> content]
    /\ last_outs' = outs
    /\ LET acc == DispatchBlocks(content, outs, iteration,
                     [plots |-> all_plots, log |-> tool_calls_log, results |-> <<>>])
       IN /\ messages' = messages
                \o <<[role |-> "assistant", content |-> AssistantContent(content)],
                     [role |-> "user", content |-> acc.results]>>
          /\ all_plots' = acc.plots
          /\ tool_calls_log' = acc.log
    /\ requested_calls' = requested_calls \o RequestedOf(content, iteration)
    /\ sandbox_plots' = sandbox_plots \o ProducedPlots(content, outs)
    /\ iteration' = iteration + 1
    /\ UNCHANGED <<variant, pc, db_messages, envelope, db_before>>

DefaultStep ==
    /\ EngineToolUse(DefaultToolUse, DefaultOutcomes)
    /\ UNCHANGED varied

VariedStep ==
    /\ varied < MaxVaried
    /\ \E content \in VariedToolUses :
          \E outs \in OutcomeSeqs(content) : EngineToolUse(content, outs)
    /\ varied' = varied + 1

\* any other stop_reason
EngineUnexpected(reason) ==
    /\ CanCallEngine
    /\ engine_calls' = engine_calls + 1
    /\ stops' = Append(stops, reason)
    /\ last_response' = [stop_reason |-> reason, content |-> <<>>]
    /\ last_outs' = <<>>
    /\ envelope' = Envelope(FALSE, <<>>, <<>>, tool_calls_log,
                            ErrorText(<<"Unexpected stop_reason: ", reason>>))
    /\ pc' = "returned"
    /\ UNCHANGED <<variant, db_messages, messages, iteration, all_plots,
                   tool_calls_log, requested_calls, sandbox_plots, db_before, varied>>

\* the for loop ran out
IterationLimit ==
    /\ pc = "loop"
    /\ iteration = max_iterations
    /\ envelope' = Envelope(FALSE, <<>>, all_plots, tool_calls_log,
                            ErrorText(<<"iteration limit (10)">>))
    /\ pc' = "returned"
    /\ UNCHANGED <<variant, db_messages, messages, iteration, all_plots,
                   tool_calls_log, engine_calls, stops, last_response,
                   last_outs, requested_calls, sandbox_plots, db_before, varied>>

-----------------------------------------------------------------------------
(* Tables: a DataFrame is its column labels and its rows of cells.         *)
(* Cells: NaN, a whitespace-only string, text, a digit string, a number.   *)
(* The cell universe holds no date-like text.                              *)

NaN == "NaN"
Blank == " "
RawCells == {NaN, Blank, "Name", " Name", "1", "#7"}

IsNa(c) == c = NaN
IsNumber(c) == c \in {"#1", "#7"}
IsStr(c) == ~IsNa(c) /\ ~IsNumber(c)

\* str(value)
StrOf(c) ==
    CASE c = NaN -> "nan"
      [] c = "#1" -> "1"
      [] c = "#7" -> "7"
      [] OTHER -> c

\* s.strip()
Strip(s) ==
    CASE s = " Name" -> "Name"
      [] s = " Age" -> "Age"
      [] s = Blank -> ""
      [] OTHER -> s

\* s.replace('.', '').replace('-', '').isdigit()
DigitLike(s) == s \in {"1", "7"}

\* 'Unnamed' in str(col)
HasUnnamed(name) == name \in {"Unnamed: 0", "Unnamed: 1", "Unnamed: 2"}

\* pd.to_numeric(value, errors='coerce')
ToNumeric(c) ==
    CASE IsNumber(c) -> c
      [] c = "1" -> "#1"
      [] c = "7" -> "#7"
      [] OTHER -> NaN

NumVal(c) == IF c = "#1" THEN 1 ELSE 7

NRows(t) == Len(t.rows)
NCols(t) == Len(t.columns)
Column(t, j) == [i \in 1..NRows(t) |-> t.rows[i][j]]

RECURSIVE SortedSeq(_)
SortedSeq(S) ==
    IF S = {} THEN <<>>
    ELSE LET m == CHOOSE x \in S : \A y \in S : x <= y
         IN <<m>> \o SortedSeq(S \ {m})

KeepRows(t, K) ==
    LET idx == SortedSeq(K)
    IN [columns |-> t.columns, rows |-> [k \in 1..Len(idx) |-> t.rows[idx[k]]]]

KeepCols(t, K) ==
    LET idx == SortedSeq(K)
    IN [columns |-> [k \in 1..Len(idx) |-> t.columns[idx[k]]],
        rows |-> [i \in 1..NRows(t) |-> [k \in 1..Len(idx) |-> t.rows[i][idx[k]]]]]

\* df.drop(columns=labels): every column carrying one of the labels goes
DropLabels(t, labels) ==
    KeepCols(t, { j \in 1..NCols(t) : t.columns[j] \notin labels })

\* df.dropna(how='all')
DropEmptyRows(t) ==
    KeepRows(t, { i \in 1..NRows(t) : \E j \in 1..NCols(t) : ~IsNa(t.rows[i][j]) })

\* df.dropna(axis=1, how='all')
DropEmptyCols(t) ==
    KeepCols(t, { j \in 1..NCols(t) : \E i \in 1..NRows(t) : ~IsNa(t.rows[i][j]) })

\* df[col] is a DataFrame, not a Series, when the label col is not unique
Duplicated(t, j) == \E k \in 1..NCols(t) : k # j /\ t.columns[k] = t.columns[j]

AllNa(t, j) == \A i \in 1..NRows(t) : IsNa(t.rows[i][j])
\* (df[col].astype(str).str.strip() == '').all()
AllBlank(t, j) == \A i \in 1..NRows(t) : Strip(StrOf(t.rows[i][j])) = ""

\* the same test with the first-row threshold met at one half
IsFirstRowHeaderAtHalf(t) ==
    LET n == NCols(t)
        unnamed_count == Cardinality({ j \in 1..n : HasUnnamed(StrOf(t.columns[j])) })
    IN IF 10 * unnamed_count < 3 * n THEN FALSE
       ELSE IF NRows(t) < 2 THEN FALSE
       ELSE LET text_count_row1 ==
                    Cardinality({ j \in 1..n : IsStr(t.rows[1][j])
                                               /\ ~DigitLike(t.rows[1][j]) })
                numeric_count_row2 ==
                    Cardinality({ j \in 1..n : ~IsNa(t.rows[2][j])
                                     /\ (IsNumber(t.rows[2][j])
                                         \/ DigitLike(StrOf(t.rows[2][j]))) })
            IN 2 * text_count_row1 >= n /\ 10 * numeric_count_row2 > 3 * n

\* CSVAnalysisAgentAPI._is_first_row_header
IsFirstRowHeader(t) ==
    LET n == NCols(t)
        unnamed_count == Cardinality({ j \in 1..n : HasUnnamed(StrOf(t.columns[j])) })
    IN IF 10 * unnamed_count < 3 * n THEN FALSE
       ELSE IF NRows(t) < 2 THEN FALSE
       ELSE LET text_count_row1 ==
                    Cardinality({ j \in 1..n : IsStr(t.rows[1][j])
                                               /\ ~DigitLike(t.rows[1][j]) })
                numeric_count_row2 ==
                    Cardinality({ j \in 1..n : ~IsNa(t.rows[2][j])
                                     /\ (IsNumber(t.rows[2][j])
                                         \/ DigitLike(StrOf(t.rows[2][j]))) })
            IN 2 * text_count_row1 > n /\ 10 * numeric_count_row2 > 3 * n

\* smart_load_file, step 3: the first row becomes the header
PromoteHeader(df_raw) ==
    IF IsFirstRowHeader(df_raw)
    THEN [columns |-> df_raw.rows[1], rows |-> Tail(df_raw.rows)]
    ELSE df_raw

LoadOk(t) == [ok |-> TRUE, df |-> t]
LoadFailed == [ok |-> FALSE]

\* CSVAnalysisAgentAPI.smart_load_file after the file is parsed into df_raw
SmartLoad(df_raw) ==
    LET promoted == PromoteHeader(df_raw)
        named == [promoted EXCEPT
                    !.columns = [j \in 1..NCols(promoted) |->
                                    Strip(StrOf(promoted.columns[j]))]]
        no_empty == DropEmptyCols(DropEmptyRows(named))
        unnamed == { j \in 1..NCols(no_empty) : HasUnnamed(no_empty.columns[j]) }
        cols_to_drop == { no_empty.columns[j] : j \in
                            { k \in unnamed : AllNa(no_empty, k) \/ AllBlank(no_empty, k) } }
    IN IF \E j \in unnamed : Duplicated(no_empty, j)
       THEN LoadFailed
       ELSE LoadOk(DropLabels(no_empty, cols_to_drop))

\* df_to_csv_base64
DfToCsvBase64(t) == [base64_csv |-> t]

\* auto_clean_data, step 1: rows to skip at the top
RowsToSkip(t) ==
    LET junk == { i \in 1..NRows(t) : i <= 5 /\
                    5 * Cardinality({ j \in 1..NCols(t) : IsNa(t.rows[i][j]) })
                        > 4 * NCols(t) }
    IN IF junk = {} THEN 0 ELSE CHOOSE i \in junk : \A k \in junk : k <= i

\* auto_clean_data, step 2: first row promoted to header
CleanPromote(t) ==
    IF NRows(t) > 1
    THEN LET n == NCols(t)
             string_count == Cardinality({ j \in 1..n : IsStr(t.rows[1][j])
                                              /\ Strip(t.rows[1][j]) # "" })
             unnamed_count == Cardinality({ j \in 1..n : HasUnnamed(t.columns[j]) })
         IN IF 2 * unnamed_count > n /\ 10 * string_count > 3 * n
            THEN [columns |-> [j \in 1..n |->
                                 IF ~IsNa(t.rows[1][j]) THEN Strip(StrOf(t.rows[1][j]))
                                 ELSE IF j = 1 THEN "Column_0"
                                 ELSE IF j = 2 THEN "Column_1" ELSE "Column_2"],
                  rows |-> Tail(t.rows)]
            ELSE t
    ELSE t

\* auto_clean_data, step 4: Unnamed columns that are empty or a running index
RECURSIVE StepsByOne(_)
StepsByOne(vals) ==
    IF Len(vals) < 2 THEN TRUE
    ELSE NumVal(vals[2]) - NumVal(vals[1]) = 1 /\ StepsByOne(Tail(vals))

IndexLike(t, j) ==
    LET col_values == SelectSeq(Column(t, j), LAMBDA c : ~IsNa(c))
        numeric_values == [k \in 1..Len(col_values) |-> ToNumeric(col_values[k])]
    IN \/ col_values = <<>>
       \/ /\ \A k \in 1..Len(numeric_values) : ~IsNa(numeric_values[k])
          /\ StepsByOne(numeric_values)

\* auto_clean_data, step 7: numeric coercion of a column
CoerceNumeric(t) ==
    LET convert(j) == 2 * Cardinality({ i \in 1..NRows(t) : ~IsNa(ToNumeric(t.rows[i][j])) })
                        > NRows(t)
    IN [t EXCEPT !.rows = [i \in 1..NRows(t) |-> [j \in 1..NCols(t) |->
                              IF convert(j) THEN ToNumeric(t.rows[i][j])
                              ELSE t.rows[i][j]]]]

\* auto_clean_data: the cleaned table, or the exception that leaves it
AutoClean(df) ==
    LET skipped == KeepRows(df, { i \in 1..NRows(df) : i > RowsToSkip(df) })
        promoted == CleanPromote(skipped)
        empty_cols == { promoted.columns[j] : j \in
                          { k \in 1..NCols(promoted) :
                                AllNa(promoted, k) \/ AllBlank(promoted, k) } }
        filled == DropLabels(promoted, empty_cols)
        unnamed_to_drop == { filled.columns[j] : j \in
                               { k \in 1..NCols(filled) :
                                    HasUnnamed(filled.columns[k]) /\ IndexLike(filled, k) } }
        kept == DropEmptyRows(DropLabels(filled, unnamed_to_drop))
        stripped == [kept EXCEPT
                       !.columns = [j \in 1..NCols(kept) |-> Strip(kept.columns[j])]]
    IN IF \E j \in 1..NCols(promoted) : Duplicated(promoted, j)
       THEN [raises |-> TRUE, exc |-> "ValueError"]
       ELSE IF \E j \in 1..NCols(stripped) : Duplicated(stripped, j)
       THEN [raises |-> TRUE, exc |-> "AttributeError"]
       ELSE [raises |-> FALSE, df |-> CoerceNumeric(stripped)]

\* analyze_csv_schema raises on a numeric column whose label is not unique
IsNumericCol(t, j) == NRows(t) > 0 /\ \A i \in 1..NRows(t) :
                          IsNa(t.rows[i][j]) \/ IsNumber(t.rows[i][j])
SchemaRaises(t) == \E j \in 1..NCols(t) : IsNumericCol(t, j) /\ Duplicated(t, j)

-----------------------------------------------------------------------------
(* What callers, the code generator and the snippets may do *)

Some(v) == [none |-> FALSE, val |-> v]

HeaderChoices(j) ==
    CASE j = 1 -> {"Unnamed: 0", "Name"}
      [] j = 2 -> {"Unnamed: 1", " Age"}
      [] OTHER -> {"Unnamed: 2", "City"}

Headers(n) == { h \in [1..n -> UNION { HeaderChoices(j) : j \in 1..n }] :
                  \A j \in 1..n : h[j] \in HeaderChoices(j) }

\* parsed files of r rows and n columns
RawTables(n, r) ==
    { [columns |-> h, rows |-> rs] :
        h \in Headers(n), rs \in [1..r -> [1..n -> RawCells]] }

RetryRaw1 == [columns |-> <<"Name", " Age">>,
              rows |-> << <<"Name", "#7">>, <<NaN, "#7">> >>]
RetryRaw2 == [columns |-> <<"Unnamed: 0", "Unnamed: 1">>,
              rows |-> << <<"Name", "Name">>, <<"1", "#7">> >>]
RetryRaws == {RetryRaw1, RetryRaw2}

\* user_query: absent, empty, whitespace only, or an instruction
EmptyQueries == { NoneVal, Some(""), Some(Blank) }
CsvQueries == EmptyQueries \cup { Some("plot sales") }

\* not user_query or user_query.strip() == ""
IsEmptyQuery(q) == q.none \/ q.val = "" \/ Strip(q.val) = ""

\* generate_code_with_retry: the code, or the exception it raises for a
\* failed engine call, by cause
GenOutcomes ==
    { [raises |-> FALSE, code |-> Some(c)] : c \in {"code1", "code2"} }
    \cup { [raises |-> TRUE, cause |-> e] : e \in {"401", "429", "timeout"} }

GenerationErrorGeneric(cause) == <<"code generation failed">>

GenerationError(cause) ==
    CASE cause = "401" -> <<"OpenRouter authentication (401)", cause>>
      [] cause = "403" -> <<"access denied (403)", cause>>
      [] cause = "429" -> <<"rate limit (429)", cause>>
      [] OTHER -> <<"code generation failed", cause>>

\* a row appended by a snippet
Edited(df) == [df EXCEPT !.rows = Append(@, [j \in 1..NCols(df) |-> "#7"])]

\* local_vars['df'] after `del df`, and after `df = df.to_dict()`
Unbound == [unbound |-> TRUE]
NotAFrame == [plain_object |-> "dict"]

IsFrame(w) == "columns" \in DOMAIN w

\* DataFrame.equals: same labels, same shape, same cells, NaN equal to NaN
DfEquals(a, b) == a.columns = b.columns /\ a.rows = b.rows

\* the AttributeError of current_df.equals(df) on an object without equals
EqualsError ==
    ErrorText(<<"AttributeError: 'dict' object has no attribute 'equals'",
                "Traceback">>)

\* what a snippet does with its copy of df: raise, or finish with modified_df
\* bound or not and its working copy kept, changed, deleted or rebound to
\* something that is no DataFrame
SnippetOutcomes(df) ==
    { [raises |-> TRUE, error |-> ErrorText(<<e, "Traceback">>)] :
          e \in {"KeyError: 'x'", "ValueError: bad"} }
    \cup { [raises |-> FALSE, modified_df |-> m, df |-> w] :
             m \in {NoneVal, df, Edited(df)},
             w \in {df, Edited(Edited(df)), Unbound, NotAFrame} }

\* local_vars.get('modified_df'), else the working copy if it differs
DetectModified(df, o) ==
    IF o.modified_df # NoneVal THEN o.modified_df
    ELSE IF o.df # Unbound /\ ~DfEquals(o.df, df) THEN o.df
    ELSE NoneVal

\* the snippet or the comparison current_df.equals(df) raises
ExecutionRaises(o) ==
    \/ o.raises
    \/ o.modified_df = NoneVal /\ o.df # Unbound /\ ~IsFrame(o.df)

RaisedText(o) == IF o.raises THEN o.error ELSE EqualsError

ExecutePythonCodeMute(df, o) ==
    IF ExecutionRaises(o)
    THEN [success |-> FALSE, result |-> NoneVal, output |-> NoneVal,
          plots |-> <<>>, modified_df |-> NoneVal]
    ELSE [success |-> TRUE, result |-> Some("42"), output |-> Some("stdout"),
          plots |-> <<"png">>, modified_df |-> DetectModified(df, o)]

\* CSVAnalysisAgentAPI.execute_python_code
ExecutePythonCode(df, o) ==
    IF ExecutionRaises(o)
    THEN [success |-> FALSE, result |-> NoneVal, output |-> RaisedText(o),
          plots |-> <<>>, modified_df |-> NoneVal]
    ELSE [success |-> TRUE, result |-> Some("42"), output |-> Some("stdout"),
          plots |-> <<"png">>, modified_df |-> DetectModified(df, o)]

-----------------------------------------------------------------------------
(* CSVAnalysisAgentAPI: smart_load_file and analyze *)

\* the entry appended to code_attempts for a generated snippet
NewAttemptMarked(n, c) ==
    [attempt |-> n, code |-> c, success |-> TRUE]

NewAttempt(n, c) ==
    [attempt |-> n, code |-> c, success |-> FALSE]

NotLoadedResult == [success |-> FALSE, error |-> ErrorText(<<"CSV file not loaded">>)]

InitialResult(q) ==
    [success |-> FALSE, query |-> q, code_attempts |-> <<>>,
     final_code |-> NoneVal, result_data |-> NoneVal, text_output |-> NoneVal,
     plots |-> <<>>, error |-> NoneVal, attempts_count |-> 0,
     modified_csv |-> NoneVal, was_modified |-> FALSE]

CleanResultUnflagged(df) ==
    [success |-> TRUE, query |-> Some("[auto clean]"), code_attempts |-> <<>>,
     final_code |-> Some("# auto clean"), result_data |-> NoneVal,
     text_output |-> Some("summary"), plots |-> <<>>, error |-> NoneVal,
     attempts_count |-> 1, modified_csv |-> DfToCsvBase64(df),
     was_modified |-> FALSE]

CleanResult(df) ==
    [success |-> TRUE, query |-> Some("[auto clean]"), code_attempts |-> <<>>,
     final_code |-> Some("# auto clean"), result_data |-> NoneVal,
     text_output |-> Some("summary"), plots |-> <<>>, error |-> NoneVal,
     attempts_count |-> 1, modified_csv |-> DfToCsvBase64(df),
     was_modified |-> TRUE]

CsvInit ==
    /\ current_df = NoneVal
    /\ csv_pc = "idle"
    /\ result = NoneVal
    /\ attempt = 0
    /\ previous_error = NoneVal
    /\ code = NoneVal
    /\ gen_calls = 0
    /\ exec_calls = 0
    /\ feedback = <<>>
    /\ exec_errors = <<>>
    /\ gen_codes = <<>>
    /\ df_before = NoneVal
    /\ csv_query = NoneVal
    /\ gen_cause = NoneVal
    /\ csv_requests = 0

\* the same assignment made on the failing path too
InstalledDfPartial(before, loaded) ==
    IF loaded.ok THEN loaded.df ELSE NoneVal

\* self.current_df is assigned once, after the last cleaning step
InstalledDf(before, loaded) ==
    IF loaded.ok THEN loaded.df ELSE before

\* smart_load_file on a parsed file; a failed load raises and installs nothing
CsvLoadFile(df_raw) ==
    /\ csv_pc = "idle"
    /\ LET loaded == SmartLoad(df_raw)
       IN current_df' = InstalledDf(current_df, loaded)
    /\ UNCHANGED <<csv_pc, result, attempt, previous_error, code, gen_calls,
                   exec_calls, feedback, exec_errors, gen_codes, df_before,
                   csv_query, gen_cause, csv_requests>>

\* analyze up to the retry loop
CsvAnalyzeStart(q) ==
    /\ csv_pc \in {"idle", "returned", "raised"}
    /\ csv_requests < MaxCsvRequests
    /\ csv_requests' = csv_requests + 1
    /\ df_before' = current_df
    /\ csv_query' = q
    /\ gen_cause' = NoneVal
    /\ attempt' = 0
    /\ previous_error' = NoneVal
    /\ code' = NoneVal
    /\ gen_calls' = 0
    /\ exec_calls' = 0
    /\ feedback' = <<>>
    /\ exec_errors' = <<>>
    /\ gen_codes' = <<>>
    /\ IF current_df = NoneVal
       THEN /\ result' = NotLoadedResult
            /\ csv_pc' = "returned"
            /\ UNCHANGED current_df
       ELSE IF IsEmptyQuery(q)
       THEN LET cleaned == AutoClean(current_df)
            IN IF cleaned.raises
               THEN /\ csv_pc' = "raised"
                    /\ result' = NoneVal
                    /\ UNCHANGED current_df
               ELSE /\ current_df' = cleaned.df
                    /\ result' = CleanResult(cleaned.df)
                    /\ csv_pc' = "returned"
       ELSE IF SchemaRaises(current_df)
       THEN /\ csv_pc' = "raised"
            /\ result' = NoneVal
            /\ UNCHANGED current_df
       ELSE /\ result' = InitialResult(q)
            /\ csv_pc' = "generate"
            /\ UNCHANGED current_df

\* a prompt that never carries the error
ErrorSectionDropped(prev_error) == NoneVal

\* generate_code_with_retry: the error section of the prompt, present
\* `if previous_error`
ErrorSection(prev_error) ==
    IF prev_error = NoneVal \/ prev_error.text = <<>>
    THEN NoneVal
    ELSE prev_error

\* one pass of the loop up to the execution: the generation call
CsvGenerate(g) ==
    /\ csv_pc = "generate"
    /\ attempt < max_retries
    /\ gen_calls' = gen_calls + 1
    /\ feedback' = Append(feedback, ErrorSection(previous_error))
    /\ IF g.raises
       THEN /\ result' = [result EXCEPT
                             !.attempts_count = attempt + 1,
                             !.error = ErrorText(<<"code generation error: ">>
                                                 \o GenerationError(g.cause))]
            /\ csv_pc' = "returned"
            /\ gen_cause' = Some(g.cause)
            /\ UNCHANGED <<code, gen_codes>>
       ELSE /\ result' = [result EXCEPT
                             !.attempts_count = attempt + 1,
                             !.code_attempts = Append(@,
                                 NewAttempt(attempt + 1, g.code))]
            /\ code' = g.code
            /\ UNCHANGED gen_cause
            /\ gen_codes' = Append(gen_codes, g.code)
            /\ csv_pc' = "execute"
    /\ UNCHANGED <<current_df, attempt, previous_error, exec_calls,
                   exec_errors, df_before, csv_query, csv_requests>>

\* the rest of the pass: the execution and what follows it
CsvExecute(o) ==
    /\ csv_pc = "execute"
    /\ exec_calls' = exec_calls + 1
    /\ LET r == ExecutePythonCode(current_df, o)
           last == Len(result.code_attempts)
       IN IF r.success
          THEN /\ result' = [result EXCEPT
                               !.success = TRUE,
                               !.final_code = code,
                               !.result_data = r.result,
                               !.text_output = r.output,
                               !.plots = r.plots,
                               !.code_attempts[last].success = TRUE,
                               !.modified_csv = IF r.modified_df # NoneVal
                                                THEN DfToCsvBase64(r.modified_df)
                                                ELSE @,
                               !.was_modified = (r.modified_df # NoneVal)]
               /\ current_df' = IF r.modified_df # NoneVal THEN r.modified_df
                                ELSE current_df
               /\ csv_pc' = "returned"
               /\ UNCHANGED <<attempt, previous_error, exec_errors>>
          ELSE /\ previous_error' = r.output
               /\ exec_errors' = Append(exec_errors, RaisedText(o))
               /\ IF attempt = max_retries - 1
                  THEN /\ result' = [result EXCEPT
                                       !.code_attempts[last] = ("error" :> r.output) @@ @,
                                       !.error = ErrorText(<<"code failed after 3 attempts">>)]
                                    @@ ("error_details" :> r.output)
                       /\ csv_pc' = "returned"
                       /\ UNCHANGED attempt
                  ELSE /\ result' = [result EXCEPT
                                       !.code_attempts[last] = ("error" :> r.output) @@ @]
                       /\ attempt' = attempt + 1
                       /\ csv_pc' = "generate"
               /\ UNCHANGED current_df
    /\ UNCHANGED <<code, gen_calls, feedback, gen_codes, df_before,
                   csv_query, gen_cause, csv_requests>>

-----------------------------------------------------------------------------
(* ClickHouseClient.execute_query.  SQL text is a sequence of characters,  *)
(* so the prefix and substring tests are the ones the code makes.          *)

LowerLetters == <<"a", "b", "c", "d", "e", "f", "g", "h", "i", "j", "k", "l", "m", "n", "o", "p", "q", "r", "s", "t", "u", "v", "w", "x", "y", "z">>
UpperLetters == <<"A", "B", "C", "D", "E", "F", "G", "H", "I", "J", "K", "L", "M", "N", "O", "P", "Q", "R", "S", "T", "U", "V", "W", "X", "Y", "Z">>

\* str.upper(), per character
UpperChar(c) ==
    IF \E i \in 1..Len(LowerLetters) : LowerLetters[i] = c
    THEN UpperLetters[CHOOSE i \in 1..Len(LowerLetters) : LowerLetters[i] = c]
    ELSE c

SqlUpper(s) == [i \in 1..Len(s) |-> UpperChar(s[i])]

IsSpace(c) == c \in {" ", "\n", "\t"}

\* str.rstrip(): trailing whitespace removed
RECURSIVE SqlRStrip(_)
SqlRStrip(s) ==
    IF s # <<>> /\ IsSpace(s[Len(s)]) THEN SqlRStrip(SubSeq(s, 1, Len(s) - 1)) ELSE s

RECURSIVE SqlLStrip(_)
SqlLStrip(s) ==
    IF s # <<>> /\ IsSpace(s[1]) THEN SqlLStrip(Tail(s)) ELSE s

\* str.strip()
SqlStrip(s) == SqlRStrip(SqlLStrip(s))

\* str.rstrip(';'): every trailing semicolon removed
RECURSIVE RStripSemicolons(_)
RStripSemicolons(s) ==
    IF s # <<>> /\ s[Len(s)] = ";" THEN RStripSemicolons(SubSeq(s, 1, Len(s) - 1)) ELSE s

\* str.startswith(p)
StartsWith(s, p) == Len(s) >= Len(p) /\ SubSeq(s, 1, Len(p)) = p

\* p in s
Contains(s, p) ==
    \E i \in 1..(Len(s) - Len(p) + 1) : SubSeq(s, i, i + Len(p) - 1) = p

KwSelect == <<"S", "E", "L", "E", "C", "T">>
KwLimit == <<"L", "I", "M", "I", "T">>
LimitSuffix == <<" ", "L", "I", "M", "I", "T", " ", "5", "0", "0", "0", "0">>

\* statements handed to execute_query: the text, what its first keyword is,
\* whether it has a LIMIT clause, and the text without the surrounding
\* whitespace and trailing semicolons
SqlHeads == { [chars |-> <<"S", "E", "L", "E", "C", "T">>, keyword |-> "SELECT"],
             [chars |-> <<"s", "e", "l", "e", "c", "t">>, keyword |-> "SELECT"],
             [chars |-> <<"S", "E", "L", "E", "C", "T", "E", "D">>, keyword |-> "SELECTED"],
             [chars |-> <<"U", "P", "D", "A", "T", "E">>, keyword |-> "UPDATE"],
             [chars |-> <<"W", "I", "T", "H">>, keyword |-> "WITH"] }
SqlBodies == { [chars |-> <<" ", "x", " ", "F", "R", "O", "M", " ", "t">>, has_limit |-> FALSE],
              [chars |-> <<" ", "x", " ", "F", "R", "O", "M", " ", "t", " ", "L", "I", "M", "I", "T", " ", "5">>, has_limit |-> TRUE],
              [chars |-> <<" ", "x", " ", "f", "r", "o", "m", " ", "t", " ", "l", "i", "m", "i", "t", " ", "5">>, has_limit |-> TRUE],
              [chars |-> <<" ", "c", "r", "e", "d", "i", "t", "_", "l", "i", "m", "i", "t", " ", "F", "R", "O", "M", " ", "t">>, has_limit |-> FALSE],
              [chars |-> <<" ", "x", " ", "F", "R", "O", "M", " ", "l", "i", "m", "i", "t", "s">>, has_limit |-> FALSE] }
SqlLeads == { <<>>, <<" ">>, <<"\n">> }
SqlTails == { <<>>, <<";">>, <<" ", ";">>, <<";", "\n">> }

Statements ==
    { [text |-> l \o h.chars \o b.chars \o t,
       first_keyword |-> h.keyword,
       has_limit |-> b.has_limit,
       core |-> h.chars \o b.chars] :
        l \in SqlLeads, h \in SqlHeads, b \in SqlBodies, t \in SqlTails }

\* what the engine and the parquet writer do with one accepted statement
SqlOutcomes == {"ok", "query_fails", "write_fails"}

\* str(e) of the exception, by what failed
FailureText(outcome) ==
    IF outcome = "query_fails" THEN "Code: 62. Syntax error" ELSE "ArrowInvalid"

PolicyError == [success |-> FALSE, error |-> "only SELECT queries are allowed"]

\* the text execute_query sends for an accepted statement
ExecutedSql(sql) ==
    LET sql_stripped == SqlStrip(sql)
    IN IF ~Contains(SqlUpper(sql_stripped), KwLimit)
       THEN RStripSemicolons(SqlRStrip(sql_stripped)) \o LimitSuffix
       ELSE sql_stripped

\* the SELECT-only check
Accepted(sql) == StartsWith(SqlUpper(SqlStrip(sql)), KwSelect)

QueryFailureBare(e, sql_executed) == [success |-> FALSE, error |-> e]

\* the dict of the except branch
QueryFailure(e, sql_executed) ==
    [success |-> FALSE, error |-> e, sql |-> sql_executed]

\* hashlib.md5(sql_stripped.encode()).hexdigest()[:10], taken to differ for
\* different texts
QueryHash(sql_executed) == [md5_10 |-> sql_executed]

\* TEMP_DIR / f"query_{query_hash}_{int(time.time())}.parquet"
ParquetPath(sql_executed, now) == <<"query", QueryHash(sql_executed), now>>

QuerySuccess(sql_executed, now) ==
    [success |-> TRUE, row_count |-> 1,
     parquet_path |-> ParquetPath(sql_executed, now)]

SqlInit ==
    /\ sql_pc = "idle"
    /\ sql_in = NoneVal
    /\ sql_outcome = "none"
    /\ sql_sent = <<>>
    /\ sql_files = {}
    /\ sql_result = NoneVal
    /\ sql_requests = 0
    /\ sql_now = 0
    /\ sql_written = <<>>

\* ClickHouseClient.execute_query, one call from entry to return
ExecuteQuery(stmt, outcome) ==
    /\ sql_requests' = sql_requests + 1
    /\ UNCHANGED sql_now
    /\ sql_in' = stmt
    /\ IF ~Accepted(stmt.text)
       THEN /\ sql_result' = PolicyError
            /\ sql_outcome' = "none"
            /\ sql_pc' = "returned"
            /\ UNCHANGED <<sql_sent, sql_files, sql_written>>
       ELSE LET sql_stripped == ExecutedSql(stmt.text)
            IN /\ sql_sent' = Append(sql_sent, sql_stripped)
               /\ sql_outcome' = outcome
               /\ sql_pc' = "returned"
               /\ IF outcome = "ok"
                  THEN /\ sql_files' = sql_files
                                          \cup {ParquetPath(sql_stripped, sql_now)}
                       /\ sql_written' = Append(sql_written,
                                                ParquetPath(sql_stripped, sql_now))
                       /\ sql_result' = QuerySuccess(sql_stripped, sql_now)
                  ELSE /\ UNCHANGED <<sql_files, sql_written>>
                       /\ sql_result' = QueryFailure(FailureText(outcome), sql_stripped)

\* statements without leading whitespace, with or without a final semicolon
SnapshotStatements ==
    { s \in Statements : /\ s.first_keyword = "SELECT"
                         /\ s.text[1] = "S"
                         /\ s.text \in {s.core, s.core \o <<";">>} }

\* a second passes on the clock of time.time()
SqlTick ==
    /\ sql_now < MaxSqlTicks
    /\ sql_now' = sql_now + 1
    /\ UNCHANGED <<sql_written, sql_pc, sql_in, sql_outcome, sql_sent,
                   sql_files, sql_result, sql_requests>>

-----------------------------------------------------------------------------
(* ChatStorage over SQLite: the sessions and messages tables, the clock of *)
(* datetime('now'), and each save as the transactions it commits.          *)
(* One tick is the resolution of datetime('now'); a day is TicksPerDay     *)
(* ticks.  The server clock is taken to be UTC.                            *)

SessionIds == {"s1", "s2"}
NoRow == -1

\* session_ttl_hours = 24, one day
SessionTtl == TicksPerDay

\* datetime('now') as stored text: 'YYYY-MM-DD HH:MM:SS'
FormatSqlite(t) == <<t \div TicksPerDay, " ", t % TicksPerDay>>

\* datetime.isoformat(): 'YYYY-MM-DDTHH:MM:SS...'
FormatIso(t) == <<t \div TicksPerDay, "T", t % TicksPerDay>>

\* code point of the separator
SepCode(c) == IF c = " " THEN 32 ELSE 84

\* comparison of two TEXT values: date part, separator, time part
TextLess(a, b) ==
    \/ a[1] < b[1]
    \/ a[1] = b[1] /\ SepCode(a[2]) < SepCode(b[2])
    \/ a[1] = b[1] /\ a[2] = b[2] /\ a[3] < b[3]

\* rows of the messages table of one session, in id order
RowsOf(msgs, s) == SelectSeq(msgs, LAMBDA m : m.session_id = s)
IdsOf(msgs, s) == { msgs[i].id : i \in { j \in 1..Len(msgs) : msgs[j].session_id = s } }
RowById(msgs, id) == msgs[CHOOSE i \in 1..Len(msgs) : msgs[i].id = id]

\* SELECT id ... ORDER BY created_at DESC LIMIT N: the sets of ids the subquery
\* can return; the order among equal created_at is not specified
KeptIdSets(msgs, s, n) ==
    LET ids == IdsOf(msgs, s)
        excess == Cardinality(ids) - n
        at(x) == RowById(msgs, x).created_at
        oldest == { x \in ids : Cardinality({ y \in ids : at(y) < at(x) }) < excess }
    IN IF excess <= 0 THEN {ids}
       ELSE { ids \ D : D \in { X \in SUBSET oldest :
                 /\ Cardinality(X) = excess
                 /\ \A x \in X : \A k \in ids \ X : at(x) <= at(k) } }

\* the DELETE without its session_id condition
DeleteNotInAnySession(msgs, s, kept) ==
    SelectSeq(msgs, LAMBDA m : m.id \in kept)

\* DELETE FROM messages WHERE session_id = ? AND id NOT IN (kept)
DeleteNotIn(msgs, s, kept) ==
    SelectSeq(msgs, LAMBDA m : m.session_id # s \/ m.id \in kept)

\* SELECT ... ORDER BY created_at ASC: every order of the ids that is
\* non-decreasing in created_at
RECURSIVE AscOrders(_, _)
AscOrders(msgs, ids) ==
    IF ids = {} THEN { <<>> }
    ELSE LET firsts == { x \in ids : \A y \in ids :
                           RowById(msgs, x).created_at <= RowById(msgs, y).created_at }
         IN UNION { { <<x>> \o rest : rest \in AscOrders(msgs, ids \ {x}) } : x \in firsts }

\* the stores a server can hold when the model starts: empty, or session s1
\* one message short of its window, its two oldest messages saved within
\* the same tick
PrefilledMessages ==
    [i \in 1..(max_messages - 1) |->
        [id |-> i, session_id |-> "s1",
         role |-> IF i % 2 = 1 THEN "user" ELSE "assistant",
         created_at |-> IF i = 1 THEN 1 ELSE i - 1]]

InitialStores ==
    { [messages |-> <<>>, sessions |-> [s \in SessionIds |-> NoRow], next_id |-> 1],
      [messages |-> PrefilledMessages,
       sessions |-> [s \in SessionIds |-> IF s = "s1" THEN max_messages - 2 ELSE NoRow],
       next_id |-> max_messages] }

\* the tick at which the model starts
StartTick == max_messages

StoreVariants == {"pkg", "root"}

\* INSERT INTO messages (session_id, role, content): id from AUTOINCREMENT,
\* created_at from datetime('now')
InsertMessage(msgs, id, s, role, t) ==
    Append(msgs, [id |-> id, session_id |-> s, role |-> role, created_at |-> t])

\* sessions whose last_activity text compares below the cutoff text
ExpiredSessions(sessions, now) ==
    { s \in SessionIds : sessions[s] # NoRow /\
        TextLess(FormatSqlite(sessions[s]), FormatIso(now - SessionTtl)) }

NoSessions == [s \in SessionIds |-> NoRow]
NoView == [session |-> "none", rows |-> <<>>, idle |-> TRUE]

StoreInit ==
    /\ st_variant \in StoreVariants
    /\ \E st0 \in InitialStores :
          /\ st_messages = st0.messages
          /\ st_sessions = st0.sessions
          /\ st_next_id = st0.next_id
          /\ st_saved = [s \in SessionIds |->
                           [i \in 1..Len(RowsOf(st0.messages, s)) |-> RowsOf(st0.messages, s)[i].id]]
    /\ st_now = StartTick
    /\ st_pc = "idle"
    /\ st_sid = "none"
    /\ st_role = "none"
    /\ st_view = NoView
    /\ st_op = "none"
    /\ st_sess_before = NoSessions
    /\ st_msgs_before = <<>>
    /\ st_saves = 0

StoreIdle ==
    /\ st_variant = "pkg"
    /\ st_messages = <<>>
    /\ st_sessions = [s \in SessionIds |-> NoRow]
    /\ st_next_id = 1
    /\ st_saved = [s \in SessionIds |-> <<>>]
    /\ st_now = StartTick
    /\ st_pc = "idle"
    /\ st_sid = "none"
    /\ st_role = "none"
    /\ st_view = NoView
    /\ st_op = "none"
    /\ st_sess_before = NoSessions
    /\ st_msgs_before = <<>>
    /\ st_saves = 0

\* save_user_message / save_assistant_message up to their first commit:
\* pkg commits _ensure_session alone; root commits the session statements
\* and the INSERT together, and its save_assistant_message only UPDATEs
SaveBegin(s, role) ==
    /\ st_pc = "idle"
    /\ st_saves < MaxStoreSaves
    /\ st_saves' = st_saves + 1
    /\ st_sid' = s
    /\ st_role' = role
    /\ IF st_variant = "pkg"
       THEN /\ st_sessions' = [st_sessions EXCEPT ![s] = st_now]
            /\ st_pc' = "insert"
            /\ UNCHANGED <<st_messages, st_next_id, st_saved>>
       ELSE /\ st_sessions' = [st_sessions EXCEPT ![s] =
                                 IF role = "assistant" /\ @ = NoRow THEN NoRow ELSE st_now]
            /\ st_messages' = InsertMessage(st_messages, st_next_id, s, role, st_now)
            /\ st_next_id' = st_next_id + 1
            /\ st_saved' = [st_saved EXCEPT ![s] = Append(@, st_next_id)]
            /\ st_pc' = "trim"
    /\ st_op' = "begin"
    /\ st_view' = NoView
    /\ st_sess_before' = NoSessions
    /\ st_msgs_before' = <<>>
    /\ UNCHANGED <<st_variant, st_now>>

\* pkg: the INSERT of the message, its own transaction
SaveInsert ==
    /\ st_pc = "insert"
    /\ st_messages' = InsertMessage(st_messages, st_next_id, st_sid, st_role, st_now)
    /\ st_next_id' = st_next_id + 1
    /\ st_saved' = [st_saved EXCEPT ![st_sid] = Append(@, st_next_id)]
    /\ st_pc' = "trim"
    /\ st_op' = "insert"
    /\ st_view' = NoView
    /\ st_sess_before' = NoSessions
    /\ st_msgs_before' = <<>>
    /\ UNCHANGED <<st_variant, st_now, st_sessions, st_sid, st_role, st_saves>>

\* _trim_session / _apply_sliding_window, its own transaction; the save returns
SaveTrim ==
    /\ st_pc = "trim"
    /\ \E kept \in KeptIdSets(st_messages, st_sid, max_messages) :
          st_messages' = DeleteNotIn(st_messages, st_sid, kept)
    /\ st_pc' = "idle"
    /\ st_op' = "save"
    /\ st_view' = NoView
    /\ st_sess_before' = NoSessions
    /\ st_msgs_before' = <<>>
    /\ UNCHANGED <<st_variant, st_now, st_sessions, st_next_id, st_sid, st_role,
                   st_saved, st_saves>>

\* get_history, one SELECT
StoreGetHistory(s) ==
    /\ \E order \in AscOrders(st_messages, IdsOf(st_messages, s)) :
          st_view' = [session |-> s, rows |-> order, idle |-> st_pc = "idle"]
    /\ st_op' = "read"
    /\ st_sess_before' = NoSessions
    /\ st_msgs_before' = <<>>
    /\ UNCHANGED <<st_variant, st_now, st_sessions, st_messages, st_next_id, st_pc,
                   st_sid, st_role, st_saved, st_saves>>

\* cleanup_expired, one transaction
CleanupExpired ==
    LET expired == ExpiredSessions(st_sessions, st_now)
    IN /\ st_messages' = SelectSeq(st_messages, LAMBDA m : m.session_id \notin expired)
       /\ st_sessions' = [s \in SessionIds |-> IF s \in expired THEN NoRow ELSE st_sessions[s]]
       /\ st_saved' = [s \in SessionIds |-> IF s \in expired THEN <<>> ELSE st_saved[s]]
       /\ st_sess_before' = st_sessions
       /\ st_msgs_before' = st_messages
       /\ st_op' = "cleanup"
       /\ st_view' = NoView
       /\ UNCHANGED <<st_variant, st_now, st_next_id, st_pc, st_sid, st_role, st_saves>>

\* the clock of datetime('now') moves on
StoreTick ==
    /\ st_now < StartTick + MaxStoreTicks
    /\ st_now' = st_now + 1
    /\ st_op' = "tick"
    /\ st_view' = NoView
    /\ st_sess_before' = NoSessions
    /\ st_msgs_before' = <<>>
    /\ UNCHANGED <<st_variant, st_sessions, st_messages, st_next_id, st_pc, st_sid,
                   st_role, st_saved, st_saves>>

-----------------------------------------------------------------------------
(* ----------------------------------------------------------------------- *)
(* PythonSandbox.execute (variants "pkg", "root") and                      *)
(* CSVAnalysisAgentAPI.execute_python_code (variant "csv").  pyplot keeps  *)
(* one registry of open figures for the whole process; requests run in     *)
(* worker threads (asyncio.to_thread), one call per worker at a time.      *)
(* A figure is its number, the worker whose call made it and where in the  *)
(* call it was made.                                                       *)
(* ----------------------------------------------------------------------- *)
Workers == {"w1", "w2"}

SandboxVariants == {"pkg", "root", "csv"}

\* the builtins module, as far as the model tracks its names
Builtins ==
    {"open", "eval", "exec", "compile", "__import__", "breakpoint", "exit",
     "quit", "input", "globals", "locals", "vars", "print", "len",
     "SystemExit"}

BLOCKED_BUILTINS ==
    {"open", "eval", "exec", "compile", "__import__",
     "breakpoint", "exit", "quit", "input",
     "globals", "locals", "vars"}

SAFE_BUILTINS == Builtins \ BLOCKED_BUILTINS

\* the dict local_vars
LocalVars(v) ==
    {"df", "pd", "np", "plt", "sns", "result"}
        \cup (IF v = "csv" THEN {"modified_df"} ELSE {})

\* the names a snippet can resolve: exec(code, globals, locals).  A globals
\* dict without "__builtins__" (csv) gets the builtins module inserted.
Namespace(v) ==
    LocalVars(v) \cup (IF v = "root" THEN SAFE_BUILTINS ELSE Builtins)

\* a snippet: how many figures it opens, what it prints, whether it writes
\* to stderr, whether it assigns result, and how it ends ("ok", "raise": an
\* Exception subclass, "exit": a BaseException outside Exception); all of it
\* happens before the end
Snippets ==
    [figs : 0..MaxFigs, prints : {<<>>, <<"line">>}, warns : BOOLEAN,
     assigns : BOOLEAN, ends : {"ok", "raise", "exit"}]

\* pyplot.figure(): next_num = max(allnums) + 1 if allnums else 1
NextNum(figs) ==
    IF figs = {} THEN 1
    ELSE (CHOOSE n \in {f.num : f \in figs} :
            \A f \in figs : f.num <= n) + 1

\* plt.get_fignums(): the open figures in ascending number
RECURSIVE FigSeq(_)
FigSeq(figs) ==
    IF figs = {} THEN <<>>
    ELSE LET lo == CHOOSE f \in figs : \A g \in figs : f.num <= g.num
         IN  <<lo>> \o FigSeq(figs \ {lo})

\* fig.savefig(buf, format='png') -> "data:image/png;base64,..."
RenderFigure(f) == [png_of |-> f]

CapturePlots(figs) ==
    LET s == FigSeq(figs) IN [i \in 1..Len(s) |-> RenderFigure(s[i])]

\* result_value of a successful run
ResultValue(v, snip) ==
    IF ~snip.assigns THEN NoneVal
    ELSE IF v = "csv" THEN [value |-> "result"]
    ELSE [str_of |-> "result"]

\* output of a successful run
SuccessOutput(v, snip) ==
    IF v = "pkg" /\ snip.warns
    THEN [stdout |-> snip.prints, stderr |-> <<"warning">>]
    ELSE [stdout |-> snip.prints]

\* f"{type(e).__name__}: {str(e)}\n{traceback.format_exc()}"
SnippetError == [type_name |-> "ValueError", message |-> "bad value",
              traceback |-> "Traceback"]

LoadFailure ==
    [success |-> FALSE, output |-> [stdout |-> <<>>], result |-> NoneVal,
     plots |-> <<>>, error |-> [load_error |-> "parquet"]]

SandboxSuccess(v, snip, plots, modified) ==
    IF v = "csv"
    THEN [success |-> TRUE, result |-> ResultValue(v, snip),
          output |-> SuccessOutput(v, snip), plots |-> plots,
          modified_df |-> modified]
    ELSE [success |-> TRUE, output |-> SuccessOutput(v, snip),
          result |-> ResultValue(v, snip), plots |-> plots,
          error |-> NoneVal]

SandboxFailure(v, snip) ==
    IF v = "csv"
    THEN [success |-> FALSE, result |-> NoneVal, output |-> SnippetError,
          plots |-> <<>>, modified_df |-> NoneVal]
    ELSE [success |-> FALSE, output |-> [stdout |-> snip.prints],
          result |-> NoneVal, plots |-> <<>>, error |-> SnippetError]

\* the finally clause: plt.close('all'), then (pkg, csv) plt.clf(), which is
\* gcf().clear(): with no figure open gcf() opens one
AfterFinally(v, w) ==
    IF v = "root" THEN {}
    ELSE {[num |-> 1, by |-> w, made_in |-> "finally"]}

IdleCall == [pc |-> "idle"]

NoOp == [kind |-> "none"]

SandboxInit ==
    /\ sb_variant \in SandboxVariants
    /\ sb_figs = {}
    /\ sb_call = [w \in Workers |-> IdleCall]
    /\ sb_op = NoOp
    /\ sb_calls = 0

SandboxIdle ==
    /\ sb_variant = "pkg"
    /\ sb_figs = {}
    /\ sb_call = [w \in Workers |-> IdleCall]
    /\ sb_op = NoOp
    /\ sb_calls = 0

\* pd.read_parquet(parquet_path) raises: execute returns before its try
SandboxLoadFails(w) ==
    /\ sb_variant # "csv"
    /\ sb_call[w].pc = "idle"
    /\ sb_calls < MaxSandboxCalls
    /\ sb_calls' = sb_calls + 1
    /\ sb_op' = [kind |-> "return", worker |-> w, ret |-> LoadFailure,
                 loaded |-> FALSE]
    /\ UNCHANGED <<sb_variant, sb_figs, sb_call>>

\* local_vars is built and exec(code, ...) starts
SandboxBegin(w, snip) ==
    /\ sb_call[w].pc = "idle"
    /\ sb_calls < MaxSandboxCalls
    /\ sb_calls' = sb_calls + 1
    /\ sb_call' = [sb_call EXCEPT ![w] =
                      [pc |-> "exec", snippet |-> snip, made |-> 0,
                       own |-> {}, names |-> Namespace(sb_variant)]]
    /\ sb_op' = [kind |-> "begin", worker |-> w]
    /\ UNCHANGED <<sb_variant, sb_figs>>

\* the snippet calls plt.figure()
SnippetFigure(w) ==
    /\ sb_call[w].pc = "exec"
    /\ sb_call[w].made < sb_call[w].snippet.figs
    /\ LET f == [num |-> NextNum(sb_figs), by |-> w, made_in |-> "snippet"]
       IN  /\ sb_figs' = sb_figs \cup {f}
           /\ sb_call' = [sb_call EXCEPT ![w].made = @ + 1,
                                         ![w].own = @ \cup {f}]
    /\ sb_op' = [kind |-> "figure", worker |-> w]
    /\ UNCHANGED <<sb_variant, sb_calls>>

\* the snippet raises: the except clause (Exception only) and the finally
SnippetRaises(w) ==
    /\ sb_call[w].pc = "exec"
    /\ sb_call[w].made = sb_call[w].snippet.figs
    /\ sb_call[w].snippet.ends # "ok"
    /\ sb_figs' = AfterFinally(sb_variant, w)
    /\ sb_call' = [sb_call EXCEPT ![w] = IdleCall]
    /\ sb_op' = [kind |-> "return", worker |-> w, loaded |-> TRUE,
                 ret |-> IF sb_call[w].snippet.ends = "raise"
                         THEN SandboxFailure(sb_variant, sb_call[w].snippet)
                         ELSE [propagates |-> "SystemExit"],
                 snippet |-> sb_call[w].snippet, own |-> sb_call[w].own,
                 harvested |-> {}, closed |-> sb_figs]
    /\ UNCHANGED <<sb_variant, sb_calls>>

\* the snippet ended normally: every open figure is rendered; csv then
\* closes them inside the try when there were any
Harvest(w) ==
    /\ sb_call[w].pc = "exec"
    /\ sb_call[w].made = sb_call[w].snippet.figs
    /\ sb_call[w].snippet.ends = "ok"
    /\ sb_figs' = IF sb_variant = "csv" THEN {} ELSE sb_figs
    /\ sb_call' = [sb_call EXCEPT ![w] =
                      [pc |-> "finally", snippet |-> sb_call[w].snippet,
                       made |-> sb_call[w].made, own |-> sb_call[w].own,
                       names |-> sb_call[w].names,
                       harvested |-> sb_figs,
                       closed |-> IF sb_variant = "csv" THEN sb_figs ELSE {}]]
    /\ sb_op' = [kind |-> "harvest", worker |-> w]
    /\ UNCHANGED <<sb_variant, sb_calls>>

\* the finally clause of a successful run, and the return
Finally(w, modified) ==
    /\ sb_call[w].pc = "finally"
    /\ sb_variant # "csv" => modified = NoneVal
    /\ sb_figs' = AfterFinally(sb_variant, w)
    /\ sb_call' = [sb_call EXCEPT ![w] = IdleCall]
    /\ sb_op' = [kind |-> "return", worker |-> w, loaded |-> TRUE,
                 ret |-> SandboxSuccess(sb_variant, sb_call[w].snippet,
                                        CapturePlots(sb_call[w].harvested),
                                        modified),
                 snippet |-> sb_call[w].snippet, own |-> sb_call[w].own,
                 harvested |-> sb_call[w].harvested,
                 closed |-> sb_call[w].closed \cup sb_figs]
    /\ UNCHANGED <<sb_variant, sb_calls>>

-----------------------------------------------------------------------------
(* Single calls of functions that keep no state between calls *)

FnIdle ==
    /\ fn_call = [fn |-> "none"]
    /\ fn_ret = NoneVal

SeqRange(q) == { q[i] : i \in 1..Len(q) }

\* _detect_separator.  The sample is its lines, each a sequence of characters.
separators == <<",", ";", "\t", "|">>

RECURSIVE CountOf(_, _)
\* line.count(sep)
CountOf(line, sep) ==
    IF line = <<>> THEN 0
    ELSE (IF Head(line) = sep THEN 1 ELSE 0) + CountOf(Tail(line), sep)

\* line.strip() is empty
IsBlankLine(line) == \A i \in 1..Len(line) : line[i] \in {" ", "\t", "\r"}

\* sample.split('\n')[:5]
SampledLines(lines) ==
    SubSeq(lines, 1, IF Len(lines) < SampleLines THEN Len(lines) ELSE SampleLines)

\* counts = [line.count(sep) for line in lines if line.strip()]
SepCountsOf(lines, sep) ==
    LET sampled == SampledLines(lines)
        kept == SelectSeq(sampled, LAMBDA line : ~IsBlankLine(line))
    IN [i \in 1..Len(kept) |-> CountOf(kept[i], sep)]

SeqMax(q) == CHOOSE x \in SeqRange(q) : \A y \in SeqRange(q) : y <= x

\* the dict sep_counts: the separators entered, each with its score
SepScore(lines, sep) ==
    LET counts == SepCountsOf(lines, sep)
    IN IF Cardinality(SeqRange(counts)) = 1 /\ counts[1] > 0
       THEN counts[1]
       ELSE SeqMax(counts)

\* max(sep_counts, key=sep_counts.get): the first key with the highest score
DetectSeparator(lines) ==
    IF SepCountsOf(lines, ",") = <<>> THEN ","
    ELSE LET best == CHOOSE i \in 1..Len(separators) :
                       /\ \A j \in 1..Len(separators) :
                              SepScore(lines, separators[j])
                                  <= SepScore(lines, separators[i])
                       /\ \A j \in 1..(i - 1) :
                              SepScore(lines, separators[j])
                                  < SepScore(lines, separators[i])
         IN  separators[best]

\* lines a sample may hold
SampleLineKinds ==
    { <<"a", ";", "b", ";", "c">>,
      <<"a", ",", "b", ";", "c", ";", "d">>,
      <<"a", ",", "b", ",", "c", ",", "d", ";", "e", ";", "f">>,
      <<"a", "|", "b", "|", "c", ";", "d">>,
      <<"a", "\t", "b">>,
      <<"a">>,
      <<" ", "\t">>,
      <<>> }

Samples(n) == [1..n -> SampleLineKinds]

CallDetectSeparator(lines) ==
    /\ fn_call' = [fn |-> "_detect_separator", lines |-> lines]
    /\ fn_ret' = DetectSeparator(lines)

\* datasets handed to execute_python_code
ExecInputs == RetryRaws \cup RawTables(1, 1)

\* one call of execute_python_code(code, df); o is what the code does
CallExecutePythonCode(df, o) ==
    /\ fn_call' = [fn |-> "execute_python_code", df |-> df, o |-> o]
    /\ fn_ret' = ExecutePythonCode(df, o)

\* files handed to smart_load_file: the name decides the reader, the bytes
\* either parse into df_raw or make the reader raise
LoadFilenames == {"data.csv", "book.xlsx"}
ReadErrors == {"EmptyDataError", "BadZipFile"}

\* a headerless file whose first row repeats a placeholder name
ClashingRaw == [columns |-> <<"Unnamed: 0", "Unnamed: 1">>,
                rows |-> << <<"Unnamed: 0", "Unnamed: 0">>, <<"1", "#7">> >>]

Unreadable == { [read_error |-> e] : e \in ReadErrors }
Readable(n, r) == { [df_raw |-> t] : t \in RawTables(n, r) }
ReloadFiles == Unreadable \cup { [df_raw |-> t] : t \in RetryRaws \cup {ClashingRaw} }

IsExcel(filename) == filename = "book.xlsx"

\* str(e) of what the reader raises: read_excel errors are wrapped first
ReadCause(filename, e) ==
    IF IsExcel(filename) THEN <<"Excel read error", e>> ELSE <<e>>

\* str(e) of the failure of step 7 on a repeated placeholder label
AmbiguousTruth == <<"ValueError: truth value of a Series is ambiguous">>

\* the exception raised by the except branch of smart_load_file
LoadError(filename, cause) == <<"load error", filename>> \o cause

\* one call of smart_load_file(file_bytes, filename)
SmartLoadFile(filename, file) ==
    /\ csv_pc = "idle"
    /\ fn_call' = [fn |-> "smart_load_file", filename |-> filename, file |-> file,
                   df_was |-> current_df]
    /\ IF "read_error" \in DOMAIN file
       THEN /\ fn_ret' = [raised |-> TRUE,
                          error |-> LoadError(filename,
                                              ReadCause(filename, file.read_error)),
                          first_row_is_header |-> FALSE]
            /\ UNCHANGED current_df
       ELSE LET loaded == SmartLoad(file.df_raw)
            IN /\ fn_ret' = IF loaded.ok
                            THEN [raised |-> FALSE,
                                  first_row_is_header |-> IsFirstRowHeader(file.df_raw),
                                  header_step |-> PromoteHeader(file.df_raw)]
                            ELSE [raised |-> TRUE,
                                  error |-> LoadError(filename, AmbiguousTruth),
                                  first_row_is_header |-> IsFirstRowHeader(file.df_raw),
                                  header_step |-> PromoteHeader(file.df_raw)]
               /\ current_df' = InstalledDf(current_df, loaded)
    /\ UNCHANGED <<csv_pc, result, attempt, previous_error, code, gen_calls,
                   exec_calls, feedback, exec_errors, gen_codes, df_before,
                   csv_query, gen_cause, csv_requests>>

-----------------------------------------------------------------------------
(* POST /api/analyze: the handler awaits agent.analyze, which runs in a     *)
(* worker thread; the root server wraps the wait in asyncio.wait_for.       *)
(* Time is counted in seconds while the handler waits.                      *)

ApiVariants == {"pkg", "root"}

\* what agent.analyze hands back when it returns
ApiEnvelopes ==
    { [success |-> ok, session_id |-> "s1"] : ok \in BOOLEAN }

EnvelopeResponse(res) ==
    [kind |-> "envelope", status |-> 200, success |-> res.success,
     session_id |-> res.session_id]

\* the JSONResponse of the asyncio.TimeoutError branch
TimeoutResponse ==
    [kind |-> "timeout", status |-> 504, success |-> FALSE,
     session_id |-> "s1"]

\* HTTPException(500), or the framework's answer to an unhandled exception
ErrorResponse == [kind |-> "http_error", status |-> 500]

ApiInit ==
    /\ api_variant \in ApiVariants
    /\ api_pc = "idle"
    /\ api_elapsed = 0
    /\ api_worker = "none"
    /\ api_response = NoneVal
    /\ api_store = <<>>

ApiIdle ==
    /\ api_variant = "pkg"
    /\ api_pc = "idle"
    /\ api_elapsed = 0
    /\ api_worker = "none"
    /\ api_response = NoneVal
    /\ api_store = <<>>

\* analyze saves the assistant turn right before it returns success
StoreAfter(store, res) ==
    IF res.success THEN Append(store, "assistant") ELSE store

\* the handler starts agent.analyze in a worker thread and awaits it; the
\* first thing analyze does is save the user turn
ApiRequest ==
    /\ api_pc = "idle"
    /\ api_pc' = "awaiting"
    /\ api_worker' = "running"
    /\ api_store' = <<"user">>
    /\ UNCHANGED <<api_variant, api_elapsed, api_response>>

\* a second passes; under wait_for no second passes beyond the timeout
\* without the timer firing
ApiTick ==
    /\ api_pc = "awaiting"
    /\ api_elapsed < (IF api_variant = "root" THEN AGENT_TIMEOUT
                      ELSE AGENT_TIMEOUT + MaxOverrun)
    /\ api_elapsed' = api_elapsed + 1
    /\ UNCHANGED <<api_variant, api_pc, api_worker, api_response, api_store>>

\* agent.analyze returns its envelope and the handler sends it
AnalysisReturns(res) ==
    /\ api_pc = "awaiting"
    /\ api_pc' = "responded"
    /\ api_worker' = "done"
    /\ api_response' = EnvelopeResponse(res)
    /\ api_store' = StoreAfter(api_store, res)
    /\ UNCHANGED <<api_variant, api_elapsed>>

\* agent.analyze raises
AnalysisRaises ==
    /\ api_pc = "awaiting"
    /\ api_pc' = "responded"
    /\ api_worker' = "done"
    /\ api_response' = ErrorResponse
    /\ UNCHANGED <<api_variant, api_elapsed, api_store>>

\* wait_for's timer fires: the handler answers, the thread keeps running
ApiTimeout ==
    /\ api_variant = "root"
    /\ api_pc = "awaiting"
    /\ api_elapsed = AGENT_TIMEOUT
    /\ api_pc' = "responded"
    /\ api_response' = TimeoutResponse
    /\ UNCHANGED <<api_variant, api_elapsed, api_worker, api_store>>

\* after the timeout answer the thread runs on to the end of analyze; its
\* return value goes nowhere
LateReturn(res) ==
    /\ api_pc = "responded"
    /\ api_worker = "running"
    /\ api_worker' = "done"
    /\ api_store' = StoreAfter(api_store, res)
    /\ UNCHANGED <<api_variant, api_pc, api_elapsed, api_response>>

\* the same thread ending in an exception
LateRaises ==
    /\ api_pc = "responded"
    /\ api_worker = "running"
    /\ api_worker' = "done"
    /\ UNCHANGED <<api_variant, api_pc, api_elapsed, api_response, api_store>>

-----------------------------------------------------------------------------
(* Specifications *)

AgentIdle ==
    /\ variant = "pkg"
    /\ pc = "idle"
    /\ db_messages = <<>>
    /\ messages = <<>>
    /\ iteration = 0
    /\ all_plots = <<>>
    /\ tool_calls_log = <<>>
    /\ envelope = NoEnvelope
    /\ engine_calls = 0
    /\ stops = <<>>
    /\ last_response = NoResponse
    /\ last_outs = <<>>
    /\ requested_calls = <<>>
    /\ sandbox_plots = <<>>
    /\ db_before = <<>>
    /\ varied = 0

-----------------------------------------------------------------------------
(* The periodic sweep of api_server: cleanup_loop *)

SweepVariants == {"pkg", "root"}

MaxSnapshotFiles == 2
SnapshotFiles == 1..MaxSnapshotFiles
NoFile == 0 - 1

\* one tick is a quarter of an hour
SweepSleepTicks == 2
RetentionTicks == 4

NoSweepOp == [kind |-> "none", deleted |-> {}, skipped |-> {}, raised |-> FALSE]

OlderOrAtCutoff(age) == age >= RetentionTicks

\* f.stat().st_mtime < cutoff, with cutoff = time.time() - 3600
Older(age) == age > RetentionTicks

Present(ages) == {f \in SnapshotFiles : ages[f] # NoFile}
Aged(ages) == {f \in Present(ages) : Older(ages[f])}

\* cleanup_temp_files: the files it unlinks.  visited are the files the loop
\* over glob("*.parquet") got to, unlink_raises the files whose unlink (or,
\* inside the try of the package, whose stat) raised.
CleanupTempFiles(ages, visited, unlink_raises) ==
    (Aged(ages) \cap visited) \ unlink_raises

\* the package keeps stat and unlink of one file inside one try, so the loop
\* visits every file; the root calls stat outside the try, so a stat that
\* raises ends the loop at that file.
Visits(v) == IF v = "pkg" THEN {SnapshotFiles} ELSE SUBSET SnapshotFiles

SweepOutcomes(v) ==
    [expired_raises : BOOLEAN, visited : Visits(v),
     unlink_raises : SUBSET SnapshotFiles]

CleanOutcome ==
    [expired_raises |-> FALSE, visited |-> SnapshotFiles, unlink_raises |-> {}]

\* what reaches `except Exception` of cleanup_loop
SweepRaised(o) == o.expired_raises \/ o.visited # SnapshotFiles

\* `except Exception` sits inside `while True`: the loop goes back to sleep
TaskAfterSweep(raised) == "sleeping"

\* the lifespan of the package cancels the task after `yield`; the startup
\* handler of the root keeps no reference to the task and nothing cancels
\* it, so the task lives as long as the host keeps the event loop.
TasksAfterShutdown(v) ==
    IF v = "pkg" THEN {"cancelled"} ELSE {"cancelled", "sleeping"}

SweepInit ==
    /\ sw_variant \in SweepVariants
    /\ sw_server = "up"
    /\ sw_task = "sleeping"
    /\ sw_slept = 0
    /\ sw_age = [f \in SnapshotFiles |-> NoFile]
    /\ sw_op = NoSweepOp

SweepIdle ==
    /\ sw_variant = "pkg"
    /\ sw_server = "up"
    /\ sw_task = "sleeping"
    /\ sw_slept = 0
    /\ sw_age = [f \in SnapshotFiles |-> NoFile]
    /\ sw_op = NoSweepOp

SweepDue == sw_task = "sleeping" /\ sw_slept = SweepSleepTicks

\* execute_query writes a snapshot file into TEMP_DIR
SnapshotWritten(f) ==
    /\ sw_server = "up"
    /\ sw_age[f] = NoFile
    /\ sw_age' = [sw_age EXCEPT ![f] = 0]
    /\ sw_op' = [NoSweepOp EXCEPT !.kind = "write"]
    /\ UNCHANGED <<sw_variant, sw_server, sw_task, sw_slept>>

\* a quarter of an hour passes; a sleep that is over wakes first
SweepTick ==
    /\ ~SweepDue
    /\ sw_age' = [f \in SnapshotFiles |->
                    IF sw_age[f] = NoFile THEN NoFile
                    ELSE IF sw_age[f] > RetentionTicks THEN sw_age[f]
                    ELSE sw_age[f] + 1]
    /\ sw_slept' = IF sw_task = "sleeping" THEN sw_slept + 1 ELSE sw_slept
    /\ sw_op' = [NoSweepOp EXCEPT !.kind = "tick"]
    /\ UNCHANGED <<sw_variant, sw_server, sw_task>>

\* one iteration of cleanup_loop after its sleep: cleanup_expired, then
\* cleanup_temp_files, both inside one try
CleanupLoopWakes(o) ==
    /\ SweepDue
    /\ LET deleted == IF o.expired_raises THEN {}
                      ELSE CleanupTempFiles(sw_age, o.visited, o.unlink_raises)
       IN  /\ sw_age' = [f \in SnapshotFiles |->
                           IF f \in deleted THEN NoFile ELSE sw_age[f]]
           /\ sw_op' = [kind |-> "sweep", deleted |-> deleted,
                        skipped |-> Aged(sw_age) \ deleted,
                        raised |-> SweepRaised(o)]
    /\ sw_slept' = 0
    /\ sw_task' = TaskAfterSweep(SweepRaised(o))
    /\ UNCHANGED <<sw_variant, sw_server>>

CleanSweep == CleanupLoopWakes(CleanOutcome)

\* the server shuts down
Shutdown(task_after) ==
    /\ sw_server = "up"
    /\ sw_server' = "down"
    /\ sw_task' = task_after
    /\ sw_op' = [NoSweepOp EXCEPT !.kind = "shutdown"]
    /\ UNCHANGED <<sw_variant, sw_slept, sw_age>>

-----------------------------------------------------------------------------
\* the tool-dispatch loop
Init == AgentInit /\ CsvInit /\ SqlInit /\ StoreIdle /\ SandboxIdle /\ FnIdle /\ ApiIdle /\ SweepIdle

Next ==
    \/ UNCHANGED <<csvVars, sqlVars, storeVars, sbVars, fnVars, apiVars, sweepVars>> /\ \E q \in Queries : AnalyzeStart(q)
    \/ UNCHANGED <<csvVars, sqlVars, storeVars, sbVars, fnVars, apiVars, sweepVars>> /\ \E cause \in EngineFailures : EngineRaises(cause)
    \/ UNCHANGED <<csvVars, sqlVars, storeVars, sbVars, fnVars, apiVars, sweepVars>> /\ \E content \in EndTurnContents : EngineEndTurn(content)
    \/ UNCHANGED <<csvVars, sqlVars, storeVars, sbVars, fnVars, apiVars, sweepVars>> /\ DefaultStep
    \/ UNCHANGED <<csvVars, sqlVars, storeVars, sbVars, fnVars, apiVars, sweepVars>> /\ VariedStep
    \/ UNCHANGED <<csvVars, sqlVars, storeVars, sbVars, fnVars, apiVars, sweepVars>> /\ \E reason \in OtherStopReasons : EngineUnexpected(reason)
    \/ UNCHANGED <<csvVars, sqlVars, storeVars, sbVars, fnVars, apiVars, sweepVars>> /\ IterationLimit

Spec == Init /\ [][Next]_vars

\* the code-generation retry loop
InitCsv == CsvInit /\ AgentIdle /\ SqlInit /\ StoreIdle /\ SandboxIdle /\ FnIdle /\ ApiIdle /\ SweepIdle

NextCsv ==
    \/ UNCHANGED <<agentVars, sqlVars, storeVars, sbVars, fnVars, apiVars, sweepVars>> /\ \E df_raw \in RetryRaws : CsvLoadFile(df_raw)
    \/ UNCHANGED <<agentVars, sqlVars, storeVars, sbVars, fnVars, apiVars, sweepVars>> /\ \E q \in CsvQueries : CsvAnalyzeStart(q)
    \/ UNCHANGED <<agentVars, sqlVars, storeVars, sbVars, fnVars, apiVars, sweepVars>> /\ \E g \in GenOutcomes : CsvGenerate(g)
    \/ UNCHANGED <<agentVars, sqlVars, storeVars, sbVars, fnVars, apiVars, sweepVars>> /\ csv_pc = "execute"
          /\ \E o \in SnippetOutcomes(current_df) : CsvExecute(o)

SpecCsv == InitCsv /\ [][NextCsv]_vars

\* loading and auto-cleaning: the first load of any small file, then analyze
\* without an instruction
NextClean ==
    \/ UNCHANGED <<agentVars, sqlVars, storeVars, sbVars, fnVars, apiVars, sweepVars>> /\ current_df = NoneVal
          /\ \E n \in 1..MaxCols, r \in 0..MaxRows :
                \E df_raw \in RawTables(n, r) : CsvLoadFile(df_raw)
    \/ UNCHANGED <<agentVars, sqlVars, storeVars, sbVars, fnVars, apiVars, sweepVars>> /\ \E q \in EmptyQueries : CsvAnalyzeStart(q)

SpecClean == InitCsv /\ [][NextClean]_vars

\* the SQL client
InitSql == SqlInit /\ AgentIdle /\ CsvInit /\ StoreIdle /\ SandboxIdle /\ FnIdle /\ ApiIdle /\ SweepIdle

NextSql ==
    \/ UNCHANGED <<agentVars, csvVars, storeVars, sbVars, fnVars, apiVars, sweepVars>>
          /\ sql_requests < MaxSqlRequests
          /\ \E stmt \in Statements, outcome \in SqlOutcomes : ExecuteQuery(stmt, outcome)

SpecSql == InitSql /\ [][NextSql]_vars

\* execute_query called repeatedly while the clock runs
NextSnapshot ==
    \/ UNCHANGED <<agentVars, csvVars, storeVars, sbVars, fnVars, apiVars, sweepVars>>
          /\ sql_requests < MaxSnapshotCalls
          /\ \E stmt \in SnapshotStatements, outcome \in SqlOutcomes :
                ExecuteQuery(stmt, outcome)
    \/ UNCHANGED <<agentVars, csvVars, storeVars, sbVars, fnVars, apiVars, sweepVars>> /\ SqlTick

SpecSnapshot == InitSql /\ [][NextSnapshot]_vars

\* the conversation store: one saver, readers and the sweep interleaved
InitStore == StoreInit /\ AgentIdle /\ CsvInit /\ SqlInit /\ SandboxIdle /\ FnIdle /\ ApiIdle /\ SweepIdle

NextStore ==
    \/ UNCHANGED <<agentVars, csvVars, sqlVars, sbVars, fnVars, apiVars, sweepVars>>
          /\ \E s \in SessionIds, role \in {"user", "assistant"} : SaveBegin(s, role)
    \/ UNCHANGED <<agentVars, csvVars, sqlVars, sbVars, fnVars, apiVars, sweepVars>> /\ SaveInsert
    \/ UNCHANGED <<agentVars, csvVars, sqlVars, sbVars, fnVars, apiVars, sweepVars>> /\ SaveTrim
    \/ UNCHANGED <<agentVars, csvVars, sqlVars, sbVars, fnVars, apiVars, sweepVars>> /\ \E s \in SessionIds : StoreGetHistory(s)
    \/ UNCHANGED <<agentVars, csvVars, sqlVars, sbVars, fnVars, apiVars, sweepVars>> /\ CleanupExpired
    \/ UNCHANGED <<agentVars, csvVars, sqlVars, sbVars, fnVars, apiVars, sweepVars>> /\ StoreTick

SpecStore == InitStore /\ [][NextStore]_vars

\* the sandbox: calls of the worker threads interleaved at the pyplot calls
InitSandbox == SandboxInit /\ AgentIdle /\ CsvInit /\ SqlInit /\ StoreIdle /\ FnIdle /\ ApiIdle /\ SweepIdle

NextSandbox ==
    \/ UNCHANGED <<agentVars, csvVars, sqlVars, storeVars, fnVars, apiVars, sweepVars>>
          /\ \E w \in Workers : SandboxLoadFails(w)
    \/ UNCHANGED <<agentVars, csvVars, sqlVars, storeVars, fnVars, apiVars, sweepVars>>
          /\ \E w \in Workers, snip \in Snippets : SandboxBegin(w, snip)
    \/ UNCHANGED <<agentVars, csvVars, sqlVars, storeVars, fnVars, apiVars, sweepVars>>
          /\ \E w \in Workers : SnippetFigure(w)
    \/ UNCHANGED <<agentVars, csvVars, sqlVars, storeVars, fnVars, apiVars, sweepVars>>
          /\ \E w \in Workers : SnippetRaises(w)
    \/ UNCHANGED <<agentVars, csvVars, sqlVars, storeVars, fnVars, apiVars, sweepVars>>
          /\ \E w \in Workers : Harvest(w)
    \/ UNCHANGED <<agentVars, csvVars, sqlVars, storeVars, fnVars, apiVars, sweepVars>>
          /\ \E w \in Workers, modified \in {NoneVal, [frame |-> "modified"]} :
                Finally(w, modified)

SpecSandbox == InitSandbox /\ [][NextSandbox]_vars

\* the functions without state, each called once on an input of its domain
InitFn == FnIdle /\ AgentIdle /\ CsvInit /\ SqlInit /\ StoreIdle /\ SandboxIdle /\ ApiIdle /\ SweepIdle

NextExec ==
    \/ UNCHANGED <<agentVars, csvVars, sqlVars, storeVars, sbVars, apiVars, sweepVars>>
          /\ fn_call.fn = "none"
          /\ \E df \in ExecInputs : \E o \in SnippetOutcomes(df) :
                CallExecutePythonCode(df, o)

SpecExec == InitFn /\ [][NextExec]_vars

NextSeparator ==
    \/ UNCHANGED <<agentVars, csvVars, sqlVars, storeVars, sbVars, apiVars, sweepVars>>
          /\ fn_call.fn = "none"
          /\ \E n \in 0..MaxLines : \E lines \in Samples(n) :
                CallDetectSeparator(lines)

SpecSeparator == InitFn /\ [][NextSeparator]_vars

\* loading: the first file is any small file, a later one is a file that
\* fails or one of the retry datasets
NextLoad ==
    \/ UNCHANGED <<agentVars, sqlVars, storeVars, sbVars, apiVars, sweepVars>>
          /\ fn_call.fn = "none"
          /\ \E filename \in LoadFilenames :
                \E n \in 1..MaxCols, r \in 0..MaxRows :
                   \E file \in Readable(n, r) : SmartLoadFile(filename, file)
    \/ UNCHANGED <<agentVars, sqlVars, storeVars, sbVars, apiVars, sweepVars>>
          /\ \E filename \in LoadFilenames :
                \E file \in ReloadFiles : SmartLoadFile(filename, file)

SpecLoad == InitFn /\ [][NextLoad]_vars

\* the two request loops: a process runs the tool-dispatch agent or the CSV
\* agent, one request of the first or a few of the second
CsvUntouched == csv_pc = "idle" /\ current_df = NoneVal /\ csv_requests = 0

NextEnvelopes ==
    \/ UNCHANGED <<csvVars, sqlVars, storeVars, sbVars, fnVars, apiVars, sweepVars>> /\ CsvUntouched /\ \E q \in Queries : AnalyzeStart(q)
    \/ UNCHANGED <<csvVars, sqlVars, storeVars, sbVars, fnVars, apiVars, sweepVars>> /\ CsvUntouched /\ \E cause \in EngineFailures : EngineRaises(cause)
    \/ UNCHANGED <<csvVars, sqlVars, storeVars, sbVars, fnVars, apiVars, sweepVars>> /\ CsvUntouched /\ \E content \in EndTurnContents : EngineEndTurn(content)
    \/ UNCHANGED <<csvVars, sqlVars, storeVars, sbVars, fnVars, apiVars, sweepVars>> /\ CsvUntouched /\ DefaultStep
    \/ UNCHANGED <<csvVars, sqlVars, storeVars, sbVars, fnVars, apiVars, sweepVars>> /\ CsvUntouched /\ VariedStep
    \/ UNCHANGED <<csvVars, sqlVars, storeVars, sbVars, fnVars, apiVars, sweepVars>> /\ CsvUntouched /\ \E reason \in OtherStopReasons : EngineUnexpected(reason)
    \/ UNCHANGED <<csvVars, sqlVars, storeVars, sbVars, fnVars, apiVars, sweepVars>> /\ CsvUntouched /\ IterationLimit
    \/ UNCHANGED <<agentVars, sqlVars, storeVars, sbVars, fnVars, apiVars, sweepVars>> /\ pc = "idle" /\ \E df_raw \in RetryRaws : CsvLoadFile(df_raw)
    \/ UNCHANGED <<agentVars, sqlVars, storeVars, sbVars, fnVars, apiVars, sweepVars>> /\ pc = "idle" /\ \E q \in CsvQueries : CsvAnalyzeStart(q)
    \/ UNCHANGED <<agentVars, sqlVars, storeVars, sbVars, fnVars, apiVars, sweepVars>> /\ pc = "idle" /\ \E g \in GenOutcomes : CsvGenerate(g)
    \/ UNCHANGED <<agentVars, sqlVars, storeVars, sbVars, fnVars, apiVars, sweepVars>> /\ pc = "idle" /\ csv_pc = "execute"
          /\ \E o \in SnippetOutcomes(current_df) : CsvExecute(o)

SpecEnvelopes == Init /\ [][NextEnvelopes]_vars

\* one request to /api/analyze.  Time passes and a due timer fires; nothing
\* obliges agent.analyze to come back (a snippet may loop forever).
InitApi == ApiInit /\ AgentIdle /\ CsvInit /\ SqlInit /\ StoreIdle /\ SandboxIdle /\ FnIdle /\ SweepIdle

NextApi ==
    \/ UNCHANGED <<agentVars, csvVars, sqlVars, storeVars, sbVars, fnVars, sweepVars>> /\ ApiRequest
    \/ UNCHANGED <<agentVars, csvVars, sqlVars, storeVars, sbVars, fnVars, sweepVars>> /\ ApiTick
    \/ UNCHANGED <<agentVars, csvVars, sqlVars, storeVars, sbVars, fnVars, sweepVars>>
          /\ \E res \in ApiEnvelopes : AnalysisReturns(res)
    \/ UNCHANGED <<agentVars, csvVars, sqlVars, storeVars, sbVars, fnVars, sweepVars>> /\ AnalysisRaises
    \/ UNCHANGED <<agentVars, csvVars, sqlVars, storeVars, sbVars, fnVars, sweepVars>> /\ ApiTimeout
    \/ UNCHANGED <<agentVars, csvVars, sqlVars, storeVars, sbVars, fnVars, sweepVars>>
          /\ \E res \in ApiEnvelopes : LateReturn(res)
    \/ UNCHANGED <<agentVars, csvVars, sqlVars, storeVars, sbVars, fnVars, sweepVars>> /\ LateRaises

SpecApi ==
    /\ InitApi
    /\ [][NextApi]_vars
    /\ WF_vars(ApiRequest
                  /\ UNCHANGED <<agentVars, csvVars, sqlVars, storeVars, sbVars, fnVars, sweepVars>>)
    /\ WF_vars(ApiTick
                  /\ UNCHANGED <<agentVars, csvVars, sqlVars, storeVars, sbVars, fnVars, sweepVars>>)
    /\ WF_vars(ApiTimeout
                  /\ UNCHANGED <<agentVars, csvVars, sqlVars, storeVars, sbVars, fnVars, sweepVars>>)

\* the sweep of the snapshot files.  Time passes, and the sleep of
\* cleanup_loop ends after 1800 seconds; a failure of the storage or of the
\* file system does not repeat forever.
InitSweep == SweepInit /\ AgentIdle /\ CsvInit /\ SqlInit /\ StoreIdle /\ SandboxIdle /\ FnIdle /\ ApiIdle

NextSweep ==
    \/ UNCHANGED <<agentVars, csvVars, sqlVars, storeVars, sbVars, fnVars, apiVars>>
          /\ \E f \in SnapshotFiles : SnapshotWritten(f)
    \/ UNCHANGED <<agentVars, csvVars, sqlVars, storeVars, sbVars, fnVars, apiVars>> /\ SweepTick
    \/ UNCHANGED <<agentVars, csvVars, sqlVars, storeVars, sbVars, fnVars, apiVars>>
          /\ \E o \in SweepOutcomes(sw_variant) : CleanupLoopWakes(o)
    \/ UNCHANGED <<agentVars, csvVars, sqlVars, storeVars, sbVars, fnVars, apiVars>>
          /\ \E t \in TasksAfterShutdown(sw_variant) : Shutdown(t)

SpecSweep ==
    /\ InitSweep
    /\ [][NextSweep]_vars
    /\ WF_vars(SweepTick
                  /\ UNCHANGED <<agentVars, csvVars, sqlVars, storeVars, sbVars, fnVars, apiVars>>)
    /\ SF_vars(CleanSweep
                  /\ UNCHANGED <<agentVars, csvVars, sqlVars, storeVars, sbVars, fnVars, apiVars>>)

-----
(* Properties of the tool-dispatch loop *)

LimitError == ErrorText(<<"iteration limit (10)">>)
LastStop == IF stops = <<>> THEN "none" ELSE stops[Len(stops)]
AllToolUse(n) == Len(stops) = n /\ \A i \in 1..n : stops[i] = "tool_use"
Narrative == JoinLines(TextParts(last_response.content))

\* C1: analyze makes at most 10 engine calls, whatever the engine answers,
\* and after 10 tool_use answers it returns success=false with the
\* iteration-limit error.
C1_AtMostTenEngineCalls ==
    /\ engine_calls <= 10
    /\ (pc = "loop" /\ engine_calls = 10) => (~CanCallEngine /\ ENABLED IterationLimit)
    /\ (pc \in {"returned", "raised"} /\ AllToolUse(10)) =>
           /\ pc = "returned"
           /\ envelope.success = FALSE
           /\ envelope.error = LimitError

C1_Witness ==
    /\ pc = "returned" /\ engine_calls = 10 /\ AllToolUse(10)
    /\ envelope.error = LimitError

\* the text a saved assistant turn holds for a narrative: the narrative cut
\* to its first 3000 characters plus the marker when it is longer than that
C2_Stored(text) ==
    IF StrLen(text) > 3000 THEN Concat(Prefix(text, 3000), TruncMarker) ELSE text

C2_EndTurnEnvelope ==
    /\ pc = "returned"
    /\ engine_calls = Len(stops)
    /\ \A i \in 1..(Len(stops) - 1) : stops[i] = "tool_use"
    /\ envelope.success = TRUE
    /\ envelope.text_output = Narrative
    /\ envelope.plots = sandbox_plots
    /\ envelope.tool_calls = requested_calls

\* C2 as claimed: on end_turn at iteration k analyze stops calling the engine
\* and returns success=true with the joined text, the accumulated plots and
\* log, and one assistant message holding that narrative is saved.
C2_Original ==
    LastStop = "end_turn" =>
        /\ C2_EndTurnEnvelope
        /\ db_messages = TrimSession(Append(db_before, AssistantMsg(Narrative)))

\* C2 (amended): as C2_Original, the one saved assistant message holding the
\* narrative cut to 3000 characters plus the truncation marker when the
\* narrative is longer than 3000 characters.
C2_EndTurnReturns ==
    LastStop = "end_turn" =>
        /\ C2_EndTurnEnvelope
        /\ db_messages =
              TrimSession(Append(db_before, AssistantMsg(C2_Stored(Narrative))))

C2_Witness ==
    /\ LastStop = "end_turn" /\ pc = "returned"
    /\ Len(stops) > 1
    /\ StrLen(Narrative) > 3000
    /\ Len(envelope.plots) > 1
    /\ db_messages[Len(db_messages)].role = "assistant"

\* C3: a success=false envelope returned for an unexpected stop reason or for
\* the exhausted iteration bound carries all the plots and tool-call records
\* accumulated in the earlier iterations.
C3_FailureKeepsPartials ==
    (/\ pc = "returned"
     /\ envelope.success = FALSE
     /\ LastStop \notin {"end_turn", "raise"}) =>
        /\ envelope.plots = sandbox_plots
        /\ envelope.tool_calls = requested_calls

\* the tool results appended for the last tool_use response
LastToolResults == messages[Len(messages)].content

ToolResultsOf(msgs) ==
    { r \in UNION { { m.content[i] : i \in 1..Len(m.content) } :
                      m \in { msgs[k] : k \in { j \in 1..Len(msgs) :
                                  msgs[j].role = "user"
                                  /\ DOMAIN msgs[j].content # {}
                                  /\ DOMAIN msgs[j].content[1] = {"type", "tool_use_id", "content"} } } } :
        TRUE }

PlotFree(r) == "plots" \in DOMAIN r.content => r.content.plots = <<>>

\* position, among the tool_use blocks of content, of block i
ToolIndex(content, i) == Cardinality({ j \in 1..i : content[j].type = "tool_use" })

\* C4: a python_analysis result with n >= 1 plots is appended with
\* plots_count = n and without the plots, the message list never holds a plot
\* payload, and the returned envelope holds every plot in call order.
C4_PlotIsolation ==
    /\ \A r \in ToolResultsOf(messages) : PlotFree(r)
    /\ LastStop = "tool_use" =>
          \A i \in 1..Len(last_response.content) :
             LET block == last_response.content[i] IN
             (/\ block.type = "tool_use"
              /\ block.name = "python_analysis"
              /\ ~last_outs[i].raises
              /\ last_outs[i].value.plots # <<>>) =>
                 LET r == LastToolResults[ToolIndex(last_response.content, i)].content
                 IN /\ "plots" \notin DOMAIN r
                    /\ "plots_count" \in DOMAIN r
                    /\ r.plots_count = Len(last_outs[i].value.plots)
    /\ pc = "returned" => envelope.plots = sandbox_plots

\* the tool_use blocks of a content list, in order
ToolUsesOf(content) == SelectSeq(content, LAMBDA b : b.type = "tool_use")

\* C28: every tool-dispatch iteration appends the engine's turn, with its
\* tool_use blocks, and right after it one user turn of tool results: one
\* result per tool_use block, in the order of the blocks, each with the id
\* of its block.  The last pair is that of the last response.
C28_ToolResultsInOrder ==
    pc # "idle" =>
        LET h == Len(messages) - 2 * iteration
        IN /\ h = Len(GetHistory(db_before))
           /\ \A k \in 1..iteration :
                 LET turn == messages[h + 2 * k - 1]
                     results == messages[h + 2 * k]
                     uses == ToolUsesOf(turn.content)
                 IN /\ turn.role = "assistant"
                    /\ results.role = "user"
                    /\ Len(results.content) = Len(uses)
                    /\ \A i \in 1..Len(uses) :
                          /\ results.content[i].type = "tool_result"
                          /\ results.content[i].tool_use_id = uses[i].id
           /\ LastStop = "tool_use" =>
                 ToolUsesOf(messages[Len(messages) - 1].content)
                    = ToolUsesOf(last_response.content)

C28_Witness ==
    /\ pc = "loop"
    /\ iteration > 1
    /\ Len(ToolUsesOf(last_response.content)) = 2
    /\ Len(LastToolResults) = 2
    /\ LastToolResults[1].tool_use_id # LastToolResults[2].tool_use_id

\* a is the end of b
IsSuffix(a, b) ==
    Len(a) <= Len(b) /\ a = SubSeq(b, Len(b) - Len(a) + 1, Len(b))

\* rows is old with exactly one message of the role added at its end, the
\* window applied
OneMoreMessage(rows, old, role) ==
    /\ rows # <<>>
    /\ rows[Len(rows)].role = role
    /\ IsSuffix(SubSeq(rows, 1, Len(rows) - 1), old)
    /\ Len(rows) = IF Len(old) < max_messages THEN Len(old) + 1 ELSE max_messages

\* what one step of a request may do to the stored conversation
PersistingStep ==
    /\ pc = "idle" =>
          /\ engine_calls' = 0
          /\ OneMoreMessage(db_messages', db_messages, "user")
    /\ (pc = "loop" /\ db_messages' # db_messages) =>
          /\ stops' = Append(stops, "end_turn")
          /\ pc' = "returned"
          /\ envelope'.success
          /\ OneMoreMessage(db_messages', db_messages, "assistant")
          /\ db_messages'[Len(db_messages')].content
                = C2_Stored(JoinLines(TextParts(last_response'.content)))
    /\ pc \in {"returned", "raised"} => db_messages' = db_messages

\* C32: one request persists exactly one user message, before its first
\* engine call, and at most one assistant message, the narrative, only when it
\* ends on end_turn; tool_use and tool_result turns are never persisted, and
\* a request that ends in failure persists no assistant message.
C32_PersistedTurns ==
    /\ []((pc \in {"loop", "raised"} \/ (pc = "returned" /\ ~envelope.success))
              => db_messages = db_before)
    /\ [][PersistingStep]_vars

C32_Witness ==
    /\ pc = "returned"
    /\ envelope.success
    /\ iteration > 1
    /\ engine_calls = iteration + 1
    /\ OneMoreMessage(db_messages, db_before, "assistant")
    /\ Len(db_before) = max_messages

\* C33: on every engine call the message list begins with a user message and
\* its roles alternate between user and assistant; on the first call of a
\* request its last message is the new user turn.
C33_RolesAlternate ==
    pc = "loop" =>
        /\ messages # <<>>
        /\ messages[1].role = "user"
        /\ \A i \in 1..(Len(messages) - 1) : messages[i].role # messages[i + 1].role
        /\ iteration = 0 =>
              /\ messages[Len(messages)].role = "user"
              /\ messages[Len(messages)] = db_before[Len(db_before)]

\* a tool_use block that names no tool of the agent or lacks an input field
\* its tool reads
FaultyCall(block) ==
    \/ block.name \notin {"list_tables", "clickhouse_query", "python_analysis"}
    \/ block.name = "clickhouse_query" /\ "sql" \notin DOMAIN block.input
    \/ /\ block.name = "python_analysis"
       /\ ~({"code", "parquet_path"} \subseteq DOMAIN block.input)

\* the tool_use blocks of the last response whose tool raised
RaisedCalls ==
    { i \in 1..Len(last_response.content) :
        last_response.content[i].type = "tool_use" /\ last_outs[i].raises }

C5_EngineFailureEnveloped ==
    /\ pc # "raised"
    /\ LastStop = "raise" =>
          /\ pc = "returned"
          /\ envelope.success = FALSE
          /\ ~envelope.error.none
          /\ envelope.error.text # <<>>

-----------------------------------------------------------------------------
(* Properties of the code-generation retry loop *)

InRetryLoop == csv_pc = "returned" /\ gen_calls > 0
NoGenerationFailed == gen_cause = NoneVal
Attempts == result.code_attempts

\* C6: when every snippet fails and no generation call fails, analyze makes
\* exactly 3 generation calls and 3 executions and returns success=false,
\* attempts_count 3 and 3 attempt entries, each unsuccessful with its own
\* error, the last error kept in the envelope.
C6_AllAttemptsFail ==
    (InRetryLoop /\ NoGenerationFailed /\ Len(exec_errors) = exec_calls) =>
        /\ gen_calls = 3
        /\ exec_calls = 3
        /\ result.success = FALSE
        /\ result.attempts_count = 3
        /\ Len(Attempts) = 3
        /\ \A i \in 1..3 : /\ Attempts[i].success = FALSE
                           /\ "error" \in DOMAIN Attempts[i]
                           /\ Attempts[i].error = exec_errors[i]
        /\ ~result.error.none
        /\ "error_details" \in DOMAIN result
        /\ result.error_details = exec_errors[3]

C6_Witness ==
    /\ InRetryLoop /\ NoGenerationFailed
    /\ exec_calls = 3 /\ Len(exec_errors) = 3
    /\ exec_errors[2] # exec_errors[3]
    /\ result.error_details = exec_errors[3]

\* C7: when the first successful execution is attempt k, the loop stops
\* there: k generation calls, attempts_count k, k attempt entries of which
\* only the last is successful, success=true and final_code the code of
\* attempt k.
C7_StopsAtFirstSuccess ==
    (InRetryLoop /\ exec_calls = Len(exec_errors) + 1) =>
        LET k == exec_calls IN
        /\ k \in 1..3
        /\ gen_calls = k
        /\ result.attempts_count = k
        /\ Len(Attempts) = k
        /\ \A i \in 1..k : Attempts[i].success = (i = k)
        /\ result.success = TRUE
        /\ result.final_code = gen_codes[k]

C7_Witness ==
    /\ InRetryLoop /\ exec_calls = 2 /\ Len(exec_errors) = 1
    /\ result.success = TRUE
    /\ gen_codes[1] # gen_codes[2]
    /\ result.final_code = gen_codes[2]

\* C8: when the generation call of attempt k fails, no further generation
\* call and no execution is made, and analyze returns success=false with an
\* error naming the cause, attempts_count k and k-1 attempt entries.
C8_GenerationFailureEnds ==
    (~NoGenerationFailed) =>
        LET k == Len(gen_codes) + 1 IN
        /\ csv_pc = "returned"
        /\ gen_calls = k
        /\ exec_calls = k - 1
        /\ result.success = FALSE
        /\ ~result.error.none
        /\ \E i \in 1..Len(result.error.text) : result.error.text[i] = gen_cause.val
        /\ result.attempts_count = k
        /\ Len(Attempts) = k - 1

C8_Witness ==
    /\ ~NoGenerationFailed /\ csv_pc = "returned"
    /\ gen_calls = 2
    /\ Len(Attempts) = 1
    /\ gen_cause.val = "429"

WasModified == "was_modified" \in DOMAIN result /\ result.was_modified
HasModifiedCsv == "modified_csv" \in DOMAIN result /\ result.modified_csv # NoneVal

C10_EmptyQueryCleans ==
    (csv_requests > 0 /\ df_before # NoneVal /\ IsEmptyQuery(csv_query)) =>
        /\ csv_pc = "returned"
        /\ gen_calls = 0
        /\ result.success = TRUE

-----------------------------------------------------------------------------
(* Properties of execute_query *)

SqlReturned == sql_pc = "returned"
EngineContacted == sql_outcome # "none"
LastSent == sql_sent[Len(sql_sent)]

\* text without its whitespace characters
NoSpace(s) == SelectSeq(s, LAMBDA c : ~IsSpace(c))

\* C11: execute_query contacts the engine only for statements whose first
\* keyword is SELECT; any other statement gets the success=false policy
\* error, with no engine call and no snapshot file written.
C11_SelectOnly ==
    (SqlReturned /\ sql_in.first_keyword # "SELECT") =>
        /\ ~EngineContacted
        /\ sql_sent = <<>>
        /\ sql_files = {}
        /\ sql_result = PolicyError

\* C12: every text sent to the engine carries a row bound: a statement
\* without a LIMIT clause is sent as the input, trailing semicolon removed,
\* with ' LIMIT 50000' appended, and a statement with its own LIMIT clause
\* is sent unchanged (whitespace aside).
C12_RowBound ==
    (SqlReturned /\ EngineContacted) =>
        IF sql_in.has_limit
        THEN NoSpace(LastSent) = NoSpace(sql_in.text)
        ELSE NoSpace(LastSent) = NoSpace(sql_in.core \o LimitSuffix)

\* C13: when the engine query or the snapshot write fails, execute_query
\* returns success=false with the failure text and the SQL as executed,
\* injected row cap included.
C13_FailureReturned ==
    (sql_outcome \in {"query_fails", "write_fails"}) =>
        /\ SqlReturned
        /\ sql_result.success = FALSE
        /\ sql_result.error = FailureText(sql_outcome)
        /\ "sql" \in DOMAIN sql_result
        /\ sql_result.sql = LastSent

C13_Witness ==
    /\ SqlReturned
    /\ sql_outcome = "write_fails"
    /\ ~sql_in.has_limit
    /\ sql_result.sql = sql_in.core \o LimitSuffix

\* C22: no two execute_query calls, identical SQL and calls within the same
\* second included, write the same snapshot path: a snapshot file, once
\* written, is never written again.
C22_SnapshotWrittenOnce ==
    \A i, j \in 1..Len(sql_written) : i # j => sql_written[i] # sql_written[j]

-----------------------------------------------------------------------------
(* Properties of the conversation store *)

\* the last min(count, N) ids inserted into session s, oldest first
ExpectedWindow(s) ==
    LET saved == st_saved[s]
    IN IF Len(saved) > max_messages
       THEN SubSeq(saved, Len(saved) - max_messages + 1, Len(saved))
       ELSE saved


\* C14: once every save has returned, each session holds exactly the
\* min(count, N) most recently inserted messages, and get_history returns
\* them oldest first, in insertion order.
C14_SlidingWindow ==
    st_pc = "idle" =>
        \A s \in SessionIds :
            /\ IdsOf(st_messages, s) = SeqRange(ExpectedWindow(s))
            /\ (st_op = "read" /\ st_view.session = s) =>
                   st_view.rows = ExpectedWindow(s)

\* C15: after cleanup_expired, a session whose last activity is older than
\* the TTL has no session row and no messages, and a session whose last
\* activity is within the TTL keeps its row and all of its messages.
C15_SweepByTtl ==
    st_op = "cleanup" =>
        \A s \in SessionIds :
            st_sess_before[s] # NoRow =>
                LET age == st_now - st_sess_before[s]
                IN /\ age > SessionTtl =>
                        /\ st_sessions[s] = NoRow
                        /\ RowsOf(st_messages, s) = <<>>
                   /\ age < SessionTtl =>
                        /\ st_sessions[s] = st_sess_before[s]
                        /\ RowsOf(st_messages, s) = RowsOf(st_msgs_before, s)

\* C16: no get_history call, even one running while a save is in progress,
\* observes more than N messages of its session.
C16_ReadersSeeAtMostN ==
    st_op = "read" => Len(st_view.rows) <= max_messages

-----------------------------------------------------------------------------
(* Properties of the sandbox *)

\* a call that got past the parquet load has just returned or propagated
SandboxReturned == sb_op.kind = "return" /\ sb_op.loaded

NoCallRunning == \A w \in Workers : sb_call[w].pc = "idle"

SnippetMade(figs) == { f \in figs : f.made_in = "snippet" }

\* C17: after a sandbox call returns, whether the snippet succeeded or
\* raised and whether it opened zero or several figures, no plotting figure
\* is open (stated for the moments when no other call is running).
C17_NoFigureLeftOpen ==
    (sb_op.kind = "return" /\ NoCallRunning) => sb_figs = {}

\* C18: with calls running concurrently in different worker threads, the
\* plots a call returns are exactly the figures its own snippet opened, and
\* the call closes no figure that another call's snippet opened.
C18_OwnFiguresOnly ==
    SandboxReturned =>
        /\ SnippetMade(sb_op.closed) \subseteq sb_op.own
        /\ sb_op.snippet.ends = "ok" =>
              /\ SnippetMade(sb_op.harvested) = sb_op.own
              /\ Cardinality(sb_op.own) = sb_op.snippet.figs

\* C19: when the snippet raises an error (an Exception subclass), the call
\* does not raise: it returns success = false, no plots, a null result, the
\* standard output captured before the failure, and an error text with the
\* error's type name, its message and the stack trace.
C19_SnippetErrorReturned ==
    (SandboxReturned /\ sb_op.snippet.ends = "raise") =>
        LET ret == sb_op.ret
        IN /\ "success" \in DOMAIN ret
           /\ ret.success = FALSE
           /\ ret.plots = <<>>
           /\ ret.result = NoneVal
           /\ ret.output = [stdout |-> sb_op.snippet.prints]
           /\ LET e == IF "error" \in DOMAIN ret THEN ret.error ELSE ret.output
              IN  {"type_name", "message", "traceback"} \subseteq DOMAIN e

DangerousNames ==
    {"open", "eval", "exec", "compile", "__import__", "input", "globals",
     "locals", "vars", "exit", "quit"}

\* C20: whichever sandbox runs a snippet, none of open, eval, exec, compile,
\* __import__, input, globals, locals, vars, exit and quit resolves in the
\* namespace the snippet is given.
C20_DangerousNamesBlocked ==
    \A w \in Workers :
        sb_call[w].pc # "idle" => sb_call[w].names \cap DangerousNames = {}

-----------------------------------------------------------------------------
(* Properties of the functions without state *)

\* C21: execute_python_code reports the explicitly bound modified_df whenever
\* the snippet bound one, even if the working copy changed too; otherwise it
\* reports the working copy as the modified dataset exactly when that copy
\* differs from the input; a snippet that binds nothing and leaves the copy
\* as it was reports no modification.
C21_MutationReported ==
    (fn_call.fn = "execute_python_code" /\ ~fn_call.o.raises) =>
        LET o == fn_call.o
            df == fn_call.df
        IN /\ fn_ret.success
           /\ fn_ret.modified_df =
                 IF o.modified_df # NoneVal THEN o.modified_df
                 ELSE IF o.df # Unbound /\ o.df # df THEN o.df
                 ELSE NoneVal

\* the separator occurs equally often, and at least once, in every sampled
\* non-blank line
ConsistentSep(lines, sep) ==
    LET counts == SepCountsOf(lines, sep)
    IN counts # <<>> /\ Cardinality(SeqRange(counts)) = 1 /\ counts[1] > 0

\* C24: _detect_separator prefers a delimiter whose count is the same and
\* positive in every sampled non-blank line to any delimiter with uneven
\* counts, however high; among the even ones the highest count wins.
C24_ConsistentSeparatorWins ==
    fn_call.fn = "_detect_separator" =>
        LET lines == fn_call.lines
            even == { i \in 1..Len(separators) :
                        ConsistentSep(lines, separators[i]) }
        IN even # {} =>
              \E i \in even :
                  /\ fn_ret = separators[i]
                  /\ \A j \in even :
                         SepCountsOf(lines, separators[j])[1]
                             <= SepCountsOf(lines, separators[i])[1]

-----------------------------------------------------------------------------
(* Properties of /api/analyze *)

\* C23: every request is answered: with the agent's envelope if the analysis
\* comes back within AGENT_TIMEOUT seconds, otherwise with the timeout
\* failure (success = false); no request stays pending forever.  (A request
\* whose analysis raises is answered with an HTTP error.)
C23_EveryRequestAnswered ==
    /\ [](api_pc = "responded" =>
            \/ api_response.kind = "envelope" /\ api_elapsed <= AGENT_TIMEOUT
            \/ /\ api_response.kind = "timeout"
               /\ api_response.success = FALSE
               /\ api_elapsed >= AGENT_TIMEOUT
            \/ api_response.kind = "http_error")
    /\ (api_pc = "awaiting" ~> api_pc = "responded")

-----------------------------------------------------------------------------
(* Properties of the session rows *)

\* the save that has just begun left a row for its session, touched now
SaveTouchedSession ==
    st_op = "begin" => st_sessions[st_sid] = st_now

\* every stored message has a session row that is not older than the message
MessagesHaveLiveSession ==
    \A i \in 1..Len(st_messages) :
        LET m == st_messages[i]
        IN /\ st_sessions[m.session_id] # NoRow
           /\ st_sessions[m.session_id] >= m.created_at

\* C30: every save_user_message and save_assistant_message creates the row
\* of its session if there is none and sets last_activity to the time of the
\* call; last_activity of a session never decreases; every stored message
\* belongs to a session whose last_activity is not earlier than the time the
\* message was created.
C30_SessionActivity ==
    /\ [](SaveTouchedSession /\ MessagesHaveLiveSession)
    /\ [][\A s \in SessionIds :
             (st_sessions[s] # NoRow /\ st_sessions'[s] # NoRow)
                 => st_sessions'[s] >= st_sessions[s]]_vars

\* C31: whatever the interleaving of saves and sweeps, every stored message
\* has a row of its session in the sessions table, so a later sweep can
\* still reach it.
C31_NoOrphanMessage ==
    \A i \in 1..Len(st_messages) :
        st_sessions[st_messages[i].session_id] # NoRow

\* what one step of the store does to the sessions it is not about
FrameStep ==
    /\ st_op' \in {"begin", "insert", "save"} =>
          \A s \in SessionIds \ {st_sid'} :
              /\ RowsOf(st_messages', s) = RowsOf(st_messages, s)
              /\ st_sessions'[s] = st_sessions[s]
    /\ st_op' = "read" =>
          /\ st_messages' = st_messages
          /\ st_sessions' = st_sessions
          /\ \A i \in 1..Len(st_view'.rows) :
                RowById(st_messages, st_view'.rows[i]).session_id = st_view'.session
    /\ st_op' = "cleanup" =>
          \A s \in SessionIds :
              RowsOf(st_messages', s) # RowsOf(st_messages, s) =>
                  st_sessions[s] # NoRow /\ st_sessions'[s] = NoRow

\* C34: saving to, trimming or reading one session never adds, removes or
\* returns a message of another session, and cleanup_expired removes
\* messages only of sessions it removes too.
C34_OtherSessionsUntouched == [][FrameStep]_vars

C34_Witness ==
    /\ st_op = "cleanup"
    /\ RowsOf(st_msgs_before, "s1") # <<>>
    /\ RowsOf(st_messages, "s1") = <<>>
    /\ st_sessions["s1"] = NoRow
    /\ RowsOf(st_messages, "s2") # <<>>
    /\ RowsOf(st_messages, "s2") = RowsOf(st_msgs_before, "s2")

-----------------------------------------------------------------------------
(* Properties of smart_load_file *)

LoadedTable == fn_call.fn = "smart_load_file" /\ "df_raw" \in DOMAIN fn_call.file

\* a cell that is text and does not read as a number
TextualCell(c) == c # NaN /\ c \notin {"#1", "#7", "1", "7"}
\* a cell that is a number or reads as one
NumericCell(c) == c \in {"#1", "#7", "1", "7"}

\* C25: the first row is promoted to header exactly when the table has at
\* least 2 rows, at least 30% of its columns carry a placeholder name, more
\* than 50% of the cells of row 0 are textual and more than 30% of the cells
\* of row 1 are numeric; a table of fewer than 2 rows is never promoted; a
\* promoted row 0 is the new column names and is gone from the body.
C25_HeaderPromotion ==
    LoadedTable =>
        LET t == fn_call.file.df_raw
            n == Len(t.columns)
            placeholders == { j \in 1..n : t.columns[j] \in
                                {"Unnamed: 0", "Unnamed: 1", "Unnamed: 2"} }
            triggers ==
                /\ Len(t.rows) >= 2
                /\ 10 * Cardinality(placeholders) >= 3 * n
                /\ 2 * Cardinality({ j \in 1..n : TextualCell(t.rows[1][j]) }) > n
                /\ 10 * Cardinality({ j \in 1..n : NumericCell(t.rows[2][j]) }) > 3 * n
        IN /\ fn_ret.first_row_is_header = triggers
           /\ Len(t.rows) < 2 => ~fn_ret.first_row_is_header
           /\ fn_ret.first_row_is_header =>
                 /\ fn_ret.header_step.columns = t.rows[1]
                 /\ fn_ret.header_step.rows = Tail(t.rows)
                 /\ ~fn_ret.raised => Len(current_df.rows) < Len(t.rows)

C25_Witness ==
    /\ LoadedTable
    /\ fn_ret.first_row_is_header
    /\ ~fn_ret.raised
    /\ Len(current_df.rows) = 1

\* C26: after a load the column names of the dataset are pairwise distinct
\* and each is a non-empty string.
C26_ColumnNamesUnique ==
    (LoadedTable /\ ~fn_ret.raised) =>
        /\ \A j, k \in 1..Len(current_df.columns) :
               j # k => current_df.columns[j] # current_df.columns[k]
        /\ \A j \in 1..Len(current_df.columns) : current_df.columns[j] # ""

\* C27: a load that fails raises an error that names the file and the
\* underlying cause, and the current dataset is what it was before the call.
C27_FailedLoadInstallsNothing ==
    (fn_call.fn = "smart_load_file" /\ fn_ret.raised) =>
        LET cause == IF "read_error" \in DOMAIN fn_call.file
                     THEN fn_call.file.read_error
                     ELSE AmbiguousTruth[1]
        IN /\ fn_call.filename \in SeqRange(fn_ret.error)
           /\ cause \in SeqRange(fn_ret.error)
           /\ current_df = fn_call.df_was

C27_Witness ==
    /\ LoadedTable
    /\ fn_ret.raised
    /\ fn_call.df_was # NoneVal
    /\ current_df = fn_call.df_was

-----------------------------------------------------------------------------
(* Properties of the error feedback in the retry loop *)

\* C29: the generation call of attempt 1 receives no error feedback; the
\* generation call of attempt i+1 receives the error text captured from the
\* execution of attempt i, unchanged, and not that of an earlier attempt.
C29_FeedbackIsLastError ==
    \A k \in 1..Len(feedback) :
        /\ k = 1 => feedback[k] = NoneVal
        /\ k > 1 => /\ Len(exec_errors) >= k - 1
                    /\ feedback[k] = exec_errors[k - 1]

C29_Witness ==
    /\ Len(feedback) = 3
    /\ exec_errors[1] # exec_errors[2]
    /\ feedback[3] = exec_errors[2]
    /\ feedback[2] = exec_errors[1]

-----------------------------------------------------------------------------
(* Properties of the returned envelopes *)

\* success exactly when error is null; a failure carries a non-empty error
WellFormed(e) ==
    /\ "success" \in DOMAIN e /\ "error" \in DOMAIN e
    /\ e.success <=> e.error = NoneVal
    /\ ~e.success => (e.error # NoneVal /\ e.error.text # <<>>)

\* C36: every envelope returned by the tool-dispatch loop or by the retry
\* loop has success = true exactly when its error is null, and a
\* success = false envelope carries a non-empty error string.
C36_EnvelopeWellFormed ==
    /\ pc = "returned" => WellFormed(envelope)
    /\ csv_pc = "returned" => WellFormed(result)

C36_Witness ==
    /\ pc = "returned"
    /\ ~envelope.success
    /\ iteration = max_iterations
    /\ envelope.error.text # <<>>

-----------------------------------------------------------------------------
(* Properties of a timed-out request *)

\* C37: once the timeout answer has been sent, the analysis still running
\* for that request changes nothing in chat storage: no assistant message
\* of the timed-out request is saved.
C37_TimedOutResultDiscarded ==
    (api_pc = "responded" /\ api_response.kind = "timeout") =>
        api_store = <<"user">>

-----------------------------------------------------------------------------
(* Properties of the cleaned dataset *)

EmptyRow(t, i) == Len(t.columns) > 0 /\ \A j \in 1..Len(t.columns) : t.rows[i][j] = NaN
EmptyColumn(t, j) == \A i \in 1..Len(t.rows) : t.rows[i][j] = NaN

\* C40: the dataset installed by a successful smart_load_file has no row
\* whose cells are all missing and no column whose cells are all missing.
C40_NoEmptyRowOrColumn ==
    (LoadedTable /\ ~fn_ret.raised) =>
        /\ \A i \in 1..Len(current_df.rows) : ~EmptyRow(current_df, i)
        /\ \A j \in 1..Len(current_df.columns) : ~EmptyColumn(current_df, j)

-----------------------------------------------------------------------------
(* Properties of the periodic sweep *)

\* a step removes a file only if the file was older than the retention
DeletesOnlyOld ==
    \A f \in SnapshotFiles :
        (sw_age[f] # NoFile /\ sw_age'[f] = NoFile) => sw_age[f] > RetentionTicks

C39_NoSweepAfterShutdown ==
    sw_server = "down" => sw_op.kind # "sweep"

====
